---- MODULE Spec2Model ----
(***************************************************************************)
(* The parallel execution engine of rust-data-processing                   *)
(* (src/src/execution): chunked filter/map over an in-memory DataSet on a  *)
(* fixed-size worker pool, throttled by a counting semaphore, with         *)
(* metrics and observer events.                                            *)
(*                                                                         *)
(* One chunk task is one invocation of the closure handed to               *)
(* into_par_iter().map(..) in filter_parallel_impl / map_parallel_impl.    *)
(* A task occupies one pool thread from the moment it is started until it  *)
(* returns or panics, also while it is blocked in Semaphore::acquire.      *)
(* Every atomic operation on the metrics, every observer call and every    *)
(* critical section of the semaphore is one step.                          *)
(*                                                                         *)
(* Specifications:                                                         *)
(*   Spec         one filter_parallel / map_parallel call on a new engine  *)
(*   FairSpec     the same, pool threads scheduled fairly                  *)
(*   RepeatSpec   the call repeated on the same input                      *)
(*   SessionSpec  ExecutionEngine::new, then filter / map / reduce calls   *)
(*                one after another on the engine                          *)
(*   PollSpec     calls on one engine while another thread takes           *)
(*                snapshots of its metrics                                 *)
(*   SemSpec      the Semaphore alone, called by threads in any order      *)
(*   SemFairSpec  the same, the threads scheduled fairly                   *)
(*   MetricsSpec  the ExecutionMetrics alone, called by threads in any     *)
(*                order                                                    *)
(*   WordSpec     chunk_ranges alone, its arithmetic on machine words      *)
(*   TwoRunSpec   filter_parallel called on one engine by several threads  *)
(*                at once, seen at the level of the metrics                *)
(*   LockSpec     one run at the level of the two mutexes (semaphore,     *)
(*                started_at) and of the calls into the observer           *)
(*   IngestSpec   one call of ingest_from_path (src/src/ingestion), which  *)
(*                produces the tables, and what it tells its observer      *)
(***************************************************************************)
EXTENDS Integers, Sequences, FiniteSets, TLC

\* ---------------------------------------------------------------- bounds
MaxRows == 3
MaxChunkSize == 2
MaxThreads == 2
MaxInFlight == 2
MaxWait == 1
MaxElapsed == 1
MaxRuns == 2
PollRows == 2
MaxClients == 2
MaxCalls == 2

\* u64::MAX, the largest value of an AtomicU64 counter of the metrics, on a
\* word scaled down to 4 bits.
U64Max == 15

\* usize::MAX, the largest value of a usize (a row count, a chunk size, the
\* AtomicUsize counters of the metrics), on a word scaled down to 4 bits.
UsizeMax == 15

\* ------------------------------------------------------------ data model
\* Value::Int64 payloads used in the tables.
Values == {0, 1}

\* A row of a one-column table.
Rows == {<<v>> : v \in Values}

\* What a mapper may return for a row: a row of the right arity, or a row
\* of the wrong arity (the empty row).
MappedRows == Rows \cup {<<>>}

Field_new(name, data_type) == [name |-> name, data_type |-> data_type]

Schema_new(fields) == [fields |-> fields]

\* The schema of tests::dataset_of_n.
IdSchema == Schema_new(<<Field_new("id", "Int64")>>)

DataSet_new(schema, rows) == [schema |-> schema, rows |-> rows]

row_count(dataset) == Len(dataset.rows)

SeqsUpTo(S, n) == UNION {[1..k -> S] : k \in 0..n}

DataSets == {DataSet_new(IdSchema, r) : r \in SeqsUpTo(Rows, MaxRows)}

Predicates == [Rows -> BOOLEAN]

Mappers == [Rows -> MappedRows]

\* ExecutionOptions accepted by ExecutionEngine::new.
ValidOptions ==
  [num_threads : 1..MaxThreads,
   chunk_size : 1..MaxChunkSize,
   max_in_flight_chunks : 1..MaxInFlight]

None == <<>>

Some(x) == <<x>>

\* num_threads: None, written as a number that is no usize; Some(n) is n.
Unset == -1

\* ExecutionOptions as a caller may write them: num_threads is an
\* Option<usize>, and nothing keeps the three numbers from being zero.
RawOptions ==
  [num_threads : {Unset} \cup 0..MaxThreads,
   chunk_size : 0..MaxChunkSize,
   max_in_flight_chunks : 0..MaxInFlight]

\* std::thread::available_parallelism(): whatever the platform reports, at
\* least 1.
AvailableParallelism == 1..MaxThreads

Min(a, b) == IF a < b THEN a ELSE b

Max(a, b) == IF a > b THEN a ELSE b

\* Faulty variant of NewPanics: num_threads is not looked at.
NewPanics_ThreadsUnchecked(o) == o.chunk_size = 0 \/ o.max_in_flight_chunks = 0

\* ExecutionEngine::new: one of the three asserts fails.
NewPanics(o) ==
  \/ ~(o.chunk_size > 0)
  \/ ~(o.max_in_flight_chunks > 0)
  \/ (o.num_threads # Unset /\ ~(o.num_threads > 0))

\* ExecutionEngine::new: the sizes the pool may be built with,
\* num_threads.unwrap_or_else(available_parallelism).max(1).
PoolSizes(o) ==
  {Max(n, 1) : n \in IF o.num_threads = Unset THEN AvailableParallelism
                      ELSE {o.num_threads}}

\* Value::Null, written as a number that is no Int64 payload of the tables.
Null == -1

\* Tables handed to reduce: their cells may be Null.
ReduceRows == Rows \cup {<<Null>>}

ReduceDataSets == {DataSet_new(IdSchema, r) : r \in SeqsUpTo(ReduceRows, MaxRows)}

\* ReduceOp
ReduceOps == {"Count", "Sum", "Min", "Max"}

\* The column names handed to reduce: the schema's column and one that the
\* schema does not have.
Columns == {"id", "missing"}

\* The arguments of a reduce call.
ReduceArgs == [column : Columns, op : ReduceOps]

\* ----------------------------------------------------- sequential helpers
RECURSIVE SelectRows(_, _)
SelectRows(rows, predicate) ==
  IF rows = <<>> THEN <<>>
  ELSE (IF predicate[Head(rows)] THEN <<Head(rows)>> ELSE <<>>)
         \o SelectRows(Tail(rows), predicate)

\* DataSet::filter_rows
filter_rows(dataset, predicate) ==
  [schema |-> dataset.schema, rows |-> SelectRows(dataset.rows, predicate)]

\* Schema::index_of: the 0-based position of the first field of that name.
index_of(schema, name) ==
  IF \E i \in 1..Len(schema.fields) : schema.fields[i].name = name
  THEN Some((CHOOSE i \in 1..Len(schema.fields) :
               /\ schema.fields[i].name = name
               /\ \A j \in 1..(i - 1) : schema.fields[j].name # name) - 1)
  ELSE None

\* row.get(idx)
RowGet(row, idx) == IF idx + 1 \in 1..Len(row) THEN Some(row[idx + 1]) ELSE None

\* Faulty variant of Accumulate: Min and Max keep the first value met.
Accumulate_KeepsFirst(rop, acc, v) ==
  IF acc = None THEN Some(v)
  ELSE IF rop = "Sum" THEN Some(acc[1] + v) ELSE acc

\* reduce_numeric_typed: one step of the fold, acc = Some(match (op, acc) ..).
Accumulate(rop, acc, v) ==
  IF acc = None THEN Some(v)
  ELSE CASE rop = "Sum" -> Some(acc[1] + v)
         [] rop = "Min" -> Some(Min(acc[1], v))
         [] rop = "Max" -> Some(Max(acc[1], v))

\* reduce_numeric_typed, DataType::Int64: the loop over the rows. A cell
\* that is absent or Null is passed over.
RECURSIVE FoldInt64(_, _, _, _)
FoldInt64(rows, idx, rop, acc) ==
  IF rows = <<>> THEN acc
  ELSE FoldInt64(Tail(rows), idx, rop,
                 IF RowGet(Head(rows), idx) \in {None, Some(Null)} THEN acc
                 ELSE Accumulate(rop, acc, RowGet(Head(rows), idx)[1]))

\* reduce_numeric_typed: Some(acc or Null) for an Int64 column, Some(Null)
\* for a column of a type that is not numeric.
reduce_numeric_typed(dataset, idx, data_type, rop) ==
  IF data_type = "Int64"
  THEN (IF FoldInt64(dataset.rows, idx, rop, None) = None
        THEN Some(Null)
        ELSE FoldInt64(dataset.rows, idx, rop, None))
  ELSE Some(Null)

\* processing::reduce
reduce(dataset, column, rop) ==
  IF index_of(dataset.schema, column) = None THEN None
  ELSE IF rop = "Count" THEN Some(row_count(dataset))
  ELSE reduce_numeric_typed(dataset, index_of(dataset.schema, column)[1],
                            dataset.schema.fields[index_of(dataset.schema, column)[1] + 1].data_type,
                            rop)

\* ------------------------------------------------------------- chunking
Range(start, end) == [start |-> start, end |-> end]

\* Faulty variant of ChunkLoop: end = start + chunk_size, without .min(row_count).
RECURSIVE ChunkLoop_NoMin(_, _, _, _)
ChunkLoop_NoMin(start, rc, chunk_size, out) ==
  IF start < rc
  THEN ChunkLoop_NoMin(start + chunk_size, rc, chunk_size,
                       Append(out, Range(start, start + chunk_size)))
  ELSE out

\* Faulty variant of ChunkLoop: the loop runs while a whole chunk is left, so the
\* rows after the last whole chunk are in no range.
RECURSIVE ChunkLoop_DropPartial(_, _, _, _)
ChunkLoop_DropPartial(start, rc, chunk_size, out) ==
  IF start + chunk_size <= rc
  THEN ChunkLoop_DropPartial(start + chunk_size, rc, chunk_size,
                             Append(out, Range(start, start + chunk_size)))
  ELSE out

RECURSIVE ChunkLoop(_, _, _, _)
ChunkLoop(start, rc, chunk_size, out) ==
  IF start < rc
  THEN ChunkLoop(Min(start + chunk_size, rc), rc, chunk_size,
                 Append(out, Range(start, Min(start + chunk_size, rc))))
  ELSE out

\* Faulty variant of chunk_ranges: a table without rows gets one empty chunk.
chunk_ranges_EmptyChunk(rc, chunk_size) ==
  IF rc = 0 THEN <<Range(0, 0)>> ELSE ChunkLoop(0, rc, chunk_size, <<>>)

chunk_ranges(rc, chunk_size) ==
  IF rc = 0 THEN <<>> ELSE ChunkLoop(0, rc, chunk_size, <<>>)

\* dataset.rows[range]
Slice(rows, range) == SubSeq(rows, range.start + 1, range.end)

\* -------------------------------------------------------------- metrics
ExecutionMetrics_new ==
  [run_id |-> 0, started_at |-> None, elapsed_ns |-> 0, rows_processed |-> 0,
   chunks_started |-> 0, chunks_finished |-> 0, throttle_wait_ns |-> 0,
   active_chunks |-> 0, max_active_chunks |-> 0]

\* Faulty variant of begin_run: rows_processed is carried over.
begin_run_KeepsRows(m) ==
  [run_id |-> m.run_id + 1, started_at |-> Some("now"), elapsed_ns |-> 0,
   rows_processed |-> m.rows_processed, chunks_started |-> 0, chunks_finished |-> 0,
   throttle_wait_ns |-> 0, active_chunks |-> 0, max_active_chunks |-> 0]

begin_run(m) ==
  [run_id |-> m.run_id + 1, started_at |-> Some("now"), elapsed_ns |-> 0,
   rows_processed |-> 0, chunks_started |-> 0, chunks_finished |-> 0,
   throttle_wait_ns |-> 0, active_chunks |-> 0, max_active_chunks |-> 0]

end_run(m, elapsed) == [m EXCEPT !.elapsed_ns = elapsed]

\* Faulty variant of on_row_processed: the counter is left alone.
on_row_processed_Noop(m) == m

on_row_processed(m) == [m EXCEPT !.rows_processed = @ + 1]

\* Faulty variant of on_throttle_wait: the wait is not added.
on_throttle_wait_Dropped(m, d) == m

\* on_throttle_wait: add = d.as_nanos().min(u64::MAX) as u64, then
\* throttle_wait_ns.fetch_add(add), which wraps around on overflow.
on_throttle_wait(m, d) ==
  [m EXCEPT !.throttle_wait_ns = (@ + Min(d, U64Max)) % (U64Max + 1)]

snapshot(m) ==
  [run_id |-> m.run_id,
   elapsed |-> IF m.elapsed_ns > 0 THEN Some(m.elapsed_ns) ELSE None,
   rows_processed |-> m.rows_processed,
   chunks_started |-> m.chunks_started,
   chunks_finished |-> m.chunks_finished,
   throttle_wait |-> m.throttle_wait_ns,
   max_active_chunks |-> m.max_active_chunks]

\* The fields of the metrics in the order in which snapshot() loads them.
SnapshotFields ==
  <<"run_id", "elapsed_ns", "rows_processed", "chunks_started", "chunks_finished",
    "throttle_wait_ns", "max_active_chunks">>

\* Nobody is inside snapshot().
NoPoll ==
  [at |-> 0, run_id |-> 0, elapsed_ns |-> 0, rows_processed |-> 0,
   chunks_started |-> 0, chunks_finished |-> 0, throttle_wait_ns |-> 0,
   max_active_chunks |-> 0]

\* ------------------------------------------------------------ semaphore
\* Faulty variant of Semaphore_new: the count starts one too high.
Semaphore_new_OffByOne(n) == n + 1

\* Faulty variant of Semaphore_new: one permit whatever the capacity asked for.
Semaphore_new_Single(n) == 1

\* Semaphore::new(permits): the count behind the mutex.
Semaphore_new(n) == n

\* Faulty variant of MustWait: acquire never waits.
MustWait_Never(g) == FALSE

\* Faulty variant of MustWait: acquire waits only below zero.
MustWait_BelowZero(g) == g < 0

\* Semaphore::acquire: the loop condition, while *g == 0.
MustWait(g) == g = 0

\* --------------------------------------------------------------- events
RunStarted == [type |-> "RunStarted"]

ThrottleWaited(c, d) == [type |-> "ThrottleWaited", chunk |-> c, duration |-> d]

ChunkStarted(c, start_row, n) ==
  [type |-> "ChunkStarted", chunk |-> c, start_row |-> start_row, row_count |-> n]

ChunkFinished(c, n) == [type |-> "ChunkFinished", chunk |-> c, output_rows |-> n]

ReduceStarted(column, rop) == [type |-> "ReduceStarted", column |-> column, op |-> rop]

ReduceFinished(out) == [type |-> "ReduceFinished", result |-> out]

RunFinished(elapsed, snap) ==
  [type |-> "RunFinished", elapsed |-> elapsed, metrics |-> snap]

\* ---------------------------------------------------------------- state
VARIABLES
  op,        \* which of filter_parallel / map_parallel / reduce runs:
             \* "filter", "map" or "reduce"
  dataset,   \* the input table
  closure,   \* the predicate (filter), the mapper (map), or the column and
             \* the ReduceOp (reduce); in IngestSpec the extension of the path
  opts,      \* the ExecutionOptions: as written by the caller before
             \* ExecutionEngine::new, the engine's after it; in IngestSpec
             \* the IngestionOptions
  observer,  \* whether an observer is attached (Option<Arc<dyn ExecutionObserver>>)
  metrics,   \* the engine's ExecutionMetrics
  pc,        \* position of the thread running *_parallel_impl
  permits,   \* the run's Semaphore: the value behind the mutex
  ranges,    \* chunk_ranges of the run
  task,      \* per chunk: position and locals of its chunk task (in SemSpec
             \* and MetricsSpec: per thread sharing the semaphore or the
             \* metrics; in IngestSpec: the locals of ingest_from_path)
  events,    \* what the observer has received in this run (chunk is a ghost
             \* field); in IngestSpec the calls the IngestionObserver received
  result,    \* the returned DataSet, once the call has returned
  runNo,     \* how many calls have been started
  prev,      \* RepeatSpec: what the previous call on the same input returned;
             \* SessionSpec, PollSpec: before a reduce, the operation called
             \* before it; MetricsSpec: what the calls so far amount to;
             \* IngestSpec: the observer methods that have run
  poll       \* a thread polling the metrics handle: its position in snapshot()
             \* and the fields it has loaded so far

vars ==
  <<op, dataset, closure, opts, observer, metrics, pc, permits, ranges, task,
    events, result, runNo, prev, poll>>

inputs == <<op, dataset, closure, opts, observer>>

K == Len(ranges)

Chunks == 1..K

NewTask ==
  [pc |-> "pending", waited |-> FALSE, dur |-> 0, now |-> 0, cur |-> 0,
   idx |-> 0, out |-> <<>>]

Finished(c) == task[c].pc \in {"done", "panicked", "skipped"}

\* The chunk task occupies a pool thread.
OnThread(c) == task[c].pc \notin {"pending", "done", "panicked", "skipped"}

\* The chunk task has returned from acquire and not yet called release.
HoldsPermit(c) ==
  task[c].pc \in {"throttle_metric", "throttle_emit", "cs_started", "cs_active",
                  "cs_load", "cs_cas", "emit_started", "rows", "emit_finished",
                  "ce_finished", "ce_active", "release"}

expected_len == Len(dataset.schema.fields)

emit(e) == events' = IF observer THEN Append(events, e) ELSE events

Init ==
  /\ op \in {"filter", "map"}
  /\ dataset \in DataSets
  /\ closure \in IF op = "filter" THEN Predicates ELSE Mappers
  /\ opts \in ValidOptions
  /\ observer \in BOOLEAN
  /\ metrics = ExecutionMetrics_new
  /\ pc = "begin_run"
  /\ permits = 0
  /\ ranges = <<>>
  /\ task = <<>>
  /\ events = <<>>
  /\ result = None
  /\ runNo = 1
  /\ prev = None
  /\ poll = NoPoll


\* ------------------------------------------------- the calling pool thread
\* filter_parallel_impl / map_parallel_impl: metrics.begin_run()
BeginRun ==
  /\ pc = "begin_run"
  /\ metrics' = begin_run(metrics)
  /\ pc' = "emit_run_started"
  /\ UNCHANGED <<inputs, permits, ranges, task, events, result, runNo, prev, poll>>

\* self.emit(ExecutionEvent::RunStarted)
EmitRunStarted ==
  /\ pc = "emit_run_started"
  /\ emit(RunStarted)
  /\ pc' = IF op = "reduce" THEN "emit_reduce_started" ELSE "setup"
  /\ UNCHANGED <<inputs, metrics, permits, ranges, task, result, runNo, prev, poll>>

\* Semaphore::new(max_in_flight_chunks), chunk_ranges(..), into_par_iter()
Setup ==
  /\ pc = "setup"
  /\ permits' = Semaphore_new(opts.max_in_flight_chunks)
  /\ ranges' = chunk_ranges(row_count(dataset), opts.chunk_size)
  /\ task' = [c \in 1..Len(ranges') |-> NewTask]
  /\ pc' = "par_iter"
  /\ UNCHANGED <<inputs, metrics, events, result, runNo, prev, poll>>

\* ------------------------------------------------------------ chunk tasks
TasksOnThreads == {c \in Chunks : OnThread(c)}

\* Faulty variant of StartTask: a chunk is started whether or not a pool thread
\* is free.
StartTask_NoThreadLimit(c) ==
  /\ pc = "par_iter"
  /\ c \in Chunks
  /\ task[c].pc = "pending"
  /\ task' = [task EXCEPT ![c].pc = "acquire"]
  /\ UNCHANGED <<inputs, metrics, pc, permits, ranges, events, result, runNo, prev, poll>>

\* A pool thread that is free picks up a chunk that no thread has started.
StartTask(c) ==
  /\ pc = "par_iter"
  /\ c \in Chunks
  /\ task[c].pc = "pending"
  /\ Cardinality(TasksOnThreads) < opts.num_threads
  /\ task' = [task EXCEPT ![c].pc = "acquire"]
  /\ UNCHANGED <<inputs, metrics, pc, permits, ranges, events, result, runNo, prev, poll>>

\* Faulty variant of AfterAcquire: a task that did not wait goes on without
\* on_chunk_start.
AfterAcquire_SkipStart(d) == IF d > 0 THEN "throttle_metric" ELSE "emit_started"

\* The position of a task that returned from acquire with wait d.
AfterAcquire(d) == IF d > 0 THEN "throttle_metric" ELSE "cs_started"

\* Semaphore::acquire: one pass of the loop under the mutex. With no permit
\* the thread parks on the condition variable; with one it takes it and
\* returns the time waited (zero when it never parked).
SemAcquire(c) ==
  /\ pc = "par_iter"
  /\ c \in Chunks
  /\ task[c].pc = "acquire"
  /\ IF MustWait(permits)
     THEN /\ task' = [task EXCEPT ![c].waited = TRUE, ![c].pc = "cv_wait"]
          /\ UNCHANGED permits
     ELSE /\ permits' = permits - 1
          /\ \E d \in (IF task[c].waited THEN 0..MaxWait ELSE {0}) :
               task' = [task EXCEPT ![c].dur = d, ![c].pc = AfterAcquire(d)]
  /\ UNCHANGED <<inputs, metrics, pc, ranges, events, result, runNo, prev, poll>>

\* Condvar::wait may return without a notification.
SpuriousWake(c) ==
  /\ pc = "par_iter"
  /\ c \in Chunks
  /\ task[c].pc = "cv_wait"
  /\ task' = [task EXCEPT ![c].pc = "acquire"]
  /\ UNCHANGED <<inputs, metrics, pc, permits, ranges, events, result, runNo, prev, poll>>

\* self.metrics.on_throttle_wait(waited)
ThrottleMetric(c) ==
  /\ pc = "par_iter"
  /\ c \in Chunks
  /\ task[c].pc = "throttle_metric"
  /\ metrics' = on_throttle_wait(metrics, task[c].dur)
  /\ task' = [task EXCEPT ![c].pc = "throttle_emit"]
  /\ UNCHANGED <<inputs, pc, permits, ranges, events, result, runNo, prev, poll>>

\* self.emit(ExecutionEvent::ThrottleWaited { duration: waited })
ThrottleEmit(c) ==
  /\ pc = "par_iter"
  /\ c \in Chunks
  /\ task[c].pc = "throttle_emit"
  /\ emit(ThrottleWaited(c, task[c].dur))
  /\ task' = [task EXCEPT ![c].pc = "cs_started"]
  /\ UNCHANGED <<inputs, metrics, pc, permits, ranges, result, runNo, prev, poll>>

\* on_chunk_start: chunks_started.fetch_add(1)
ChunkStartCount(c) ==
  /\ pc = "par_iter"
  /\ c \in Chunks
  /\ task[c].pc = "cs_started"
  /\ metrics' = [metrics EXCEPT !.chunks_started = @ + 1]
  /\ task' = [task EXCEPT ![c].pc = "cs_active"]
  /\ UNCHANGED <<inputs, pc, permits, ranges, events, result, runNo, prev, poll>>

\* on_chunk_start: let now = active_chunks.fetch_add(1) + 1
ChunkStartActive(c) ==
  /\ pc = "par_iter"
  /\ c \in Chunks
  /\ task[c].pc = "cs_active"
  /\ metrics' = [metrics EXCEPT !.active_chunks = @ + 1]
  /\ task' = [task EXCEPT ![c].now = metrics.active_chunks + 1, ![c].pc = "cs_load"]
  /\ UNCHANGED <<inputs, pc, permits, ranges, events, result, runNo, prev, poll>>

\* Faulty variant of CasSucceeds: a plain store, whatever dst holds by now.
CasSucceeds_Always(dst, cur) == TRUE

\* update_max_usize: dst.compare_exchange(cur, now).is_ok()
CasSucceeds(dst, cur) == dst = cur

\* update_max_usize: cur = dst.load(); if now <= cur { break }
UpdateMaxLoad(c) ==
  /\ pc = "par_iter"
  /\ c \in Chunks
  /\ task[c].pc = "cs_load"
  /\ IF task[c].now <= metrics.max_active_chunks
     THEN task' = [task EXCEPT ![c].now = 0, ![c].pc = "emit_started"]
     ELSE task' = [task EXCEPT ![c].cur = metrics.max_active_chunks, ![c].pc = "cs_cas"]
  /\ UNCHANGED <<inputs, metrics, pc, permits, ranges, events, result, runNo, prev, poll>>

\* update_max_usize: dst.compare_exchange(cur, now); retry on failure
UpdateMaxCas(c) ==
  /\ pc = "par_iter"
  /\ c \in Chunks
  /\ task[c].pc = "cs_cas"
  /\ IF CasSucceeds(metrics.max_active_chunks, task[c].cur)
     THEN /\ metrics' = [metrics EXCEPT !.max_active_chunks = task[c].now]
          /\ task' = [task EXCEPT ![c].now = 0, ![c].cur = 0, ![c].pc = "emit_started"]
     ELSE /\ task' = [task EXCEPT ![c].cur = 0, ![c].pc = "cs_load"]
          /\ UNCHANGED metrics
  /\ UNCHANGED <<inputs, pc, permits, ranges, events, result, runNo, prev, poll>>

\* self.emit(ExecutionEvent::ChunkStarted { start_row, row_count })
EmitChunkStarted(c) ==
  /\ pc = "par_iter"
  /\ c \in Chunks
  /\ task[c].pc = "emit_started"
  /\ emit(ChunkStarted(c, ranges[c].start, ranges[c].end - ranges[c].start))
  /\ task' = [task EXCEPT ![c].pc =
                IF ranges[c].end - ranges[c].start = 0 THEN "emit_finished" ELSE "rows"]
  /\ UNCHANGED <<inputs, metrics, pc, permits, ranges, result, runNo, prev, poll>>

\* What one pass of the row loop appends to the chunk's out.
FilterPush(row) == IF closure[row] THEN <<row>> ELSE <<>>

\* Faulty variant of MapPush: the input row is pushed, not the mapped one.
MapPush_Unmapped(row) == <<row>>

MapPush(row) == <<closure[row]>>

RowCount(c) == ranges[c].end - ranges[c].start

AfterRow(c) == IF task[c].idx + 1 = RowCount(c) THEN "emit_finished" ELSE "rows"

\* filter: on_row_processed(); if predicate(row) { out.push(row.clone()) }
FilterRow(c) ==
  /\ pc = "par_iter"
  /\ op = "filter"
  /\ c \in Chunks
  /\ task[c].pc = "rows"
  /\ metrics' = on_row_processed(metrics)
  /\ task' = [task EXCEPT
                ![c].out = @ \o FilterPush(Slice(dataset.rows, ranges[c])[task[c].idx + 1]),
                ![c].idx = @ + 1,
                ![c].pc = AfterRow(c)]
  /\ UNCHANGED <<inputs, pc, permits, ranges, events, result, runNo, prev, poll>>

\* map: on_row_processed(); mapped = mapper(row); the assert passes; out.push(mapped)
MapRow(c) ==
  /\ pc = "par_iter"
  /\ op = "map"
  /\ c \in Chunks
  /\ task[c].pc = "rows"
  /\ Len(closure[Slice(dataset.rows, ranges[c])[task[c].idx + 1]]) = expected_len
  /\ metrics' = on_row_processed(metrics)
  /\ task' = [task EXCEPT
                ![c].out = @ \o MapPush(Slice(dataset.rows, ranges[c])[task[c].idx + 1]),
                ![c].idx = @ + 1,
                ![c].pc = AfterRow(c)]
  /\ UNCHANGED <<inputs, pc, permits, ranges, events, result, runNo, prev, poll>>

\* Faulty variant of MapRowPanic: the unwinding task gives its permit back, as a
\* guard dropped during the unwinding would.
MapRowPanic_Releases(c) ==
  /\ pc = "par_iter"
  /\ op = "map"
  /\ c \in Chunks
  /\ task[c].pc = "rows"
  /\ Len(closure[Slice(dataset.rows, ranges[c])[task[c].idx + 1]]) # expected_len
  /\ metrics' = on_row_processed(metrics)
  /\ permits' = permits + 1
  /\ task' = [task EXCEPT ![c].pc = "panicked"]
  /\ UNCHANGED <<inputs, pc, ranges, events, result, runNo, prev, poll>>

\* map: the assert on mapped.len() fails and the task unwinds. Nothing after
\* the assert runs: no ChunkFinished, no on_chunk_end, no release. The chunks
\* that the pool had folded into the same sequential leaf after this one
\* (c+1..h, none of them started) are dropped with it.
MapRowPanic(c) ==
  /\ pc = "par_iter"
  /\ op = "map"
  /\ c \in Chunks
  /\ task[c].pc = "rows"
  /\ Len(closure[Slice(dataset.rows, ranges[c])[task[c].idx + 1]]) # expected_len
  /\ metrics' = on_row_processed(metrics)
  /\ \E h \in c..K :
       /\ \A d \in (c + 1)..h : task[d].pc = "pending"
       /\ task' = [d \in Chunks |->
                     IF d = c THEN [task[c] EXCEPT !.pc = "panicked"]
                     ELSE IF d \in (c + 1)..h THEN [task[d] EXCEPT !.pc = "skipped"]
                     ELSE task[d]]
  /\ UNCHANGED <<inputs, pc, permits, ranges, events, result, runNo, prev, poll>>

\* Faulty variant of EmitChunkFinished: output_rows is the chunk's row count.
EmitChunkFinished_InputRows(c) ==
  /\ pc = "par_iter"
  /\ c \in Chunks
  /\ task[c].pc = "emit_finished"
  /\ emit(ChunkFinished(c, RowCount(c)))
  /\ task' = [task EXCEPT ![c].pc = "ce_finished"]
  /\ UNCHANGED <<inputs, metrics, pc, permits, ranges, result, runNo, prev, poll>>

\* self.emit(ExecutionEvent::ChunkFinished { output_rows: out.len() })
EmitChunkFinished(c) ==
  /\ pc = "par_iter"
  /\ c \in Chunks
  /\ task[c].pc = "emit_finished"
  /\ emit(ChunkFinished(c, Len(task[c].out)))
  /\ task' = [task EXCEPT ![c].pc = "ce_finished"]
  /\ UNCHANGED <<inputs, metrics, pc, permits, ranges, result, runNo, prev, poll>>

\* Faulty variant of ChunkEndCount: chunks_finished goes up by two.
ChunkEndCount_Twice(c) ==
  /\ pc = "par_iter"
  /\ c \in Chunks
  /\ task[c].pc = "ce_finished"
  /\ metrics' = [metrics EXCEPT !.chunks_finished = @ + 2]
  /\ task' = [task EXCEPT ![c].pc = "ce_active"]
  /\ UNCHANGED <<inputs, pc, permits, ranges, events, result, runNo, prev, poll>>

\* on_chunk_end: chunks_finished.fetch_add(1)
ChunkEndCount(c) ==
  /\ pc = "par_iter"
  /\ c \in Chunks
  /\ task[c].pc = "ce_finished"
  /\ metrics' = [metrics EXCEPT !.chunks_finished = @ + 1]
  /\ task' = [task EXCEPT ![c].pc = "ce_active"]
  /\ UNCHANGED <<inputs, pc, permits, ranges, events, result, runNo, prev, poll>>

\* on_chunk_end: active_chunks.fetch_sub(1)
ChunkEndActive(c) ==
  /\ pc = "par_iter"
  /\ c \in Chunks
  /\ task[c].pc = "ce_active"
  /\ metrics' = [metrics EXCEPT !.active_chunks = @ - 1]
  /\ task' = [task EXCEPT ![c].pc = "release"]
  /\ UNCHANGED <<inputs, pc, permits, ranges, events, result, runNo, prev, poll>>

\* Faulty variant of Notified: release wakes nobody.
Notified_Nobody(t) == {t}

\* The tasks after notify_one: one parked thread, if any, is woken.
Notified(t) ==
  IF \E w \in DOMAIN t : t[w].pc = "cv_wait"
  THEN {[t EXCEPT ![w].pc = "acquire"] : w \in {x \in DOMAIN t : t[x].pc = "cv_wait"}}
  ELSE {t}

\* Faulty variant of SemRelease: the count goes up by two.
SemRelease_Twice(c) ==
  /\ pc = "par_iter"
  /\ c \in Chunks
  /\ task[c].pc = "release"
  /\ permits' = permits + 2
  /\ task' \in Notified([task EXCEPT ![c].pc = "done"])
  /\ UNCHANGED <<inputs, metrics, pc, ranges, events, result, runNo, prev, poll>>

\* Semaphore::release: *g += 1; cv.notify_one(); then the task returns out.
SemRelease(c) ==
  /\ pc = "par_iter"
  /\ c \in Chunks
  /\ task[c].pc = "release"
  /\ permits' = permits + 1
  /\ task' \in Notified([task EXCEPT ![c].pc = "done"])
  /\ UNCHANGED <<inputs, metrics, pc, ranges, events, result, runNo, prev, poll>>

\* ------------------------------------------------------------ the gather
\* Faulty variant of Flatten: the chunks' outputs are joined last chunk first.
RECURSIVE Flatten_Reversed(_)
Flatten_Reversed(per_chunk) ==
  IF per_chunk = <<>> THEN <<>>
  ELSE Flatten_Reversed(Tail(per_chunk)) \o Head(per_chunk)

RECURSIVE Flatten(_)
Flatten(per_chunk) ==
  IF per_chunk = <<>> THEN <<>> ELSE Head(per_chunk) \o Flatten(Tail(per_chunk))

\* collect() has every chunk's out, indexed by chunk.
PerChunk == [c \in Chunks |-> task[c].out]

\* Faulty variant of Collect: the gather does not wait for the chunk tasks that are
\* still running.
Collect_NoBarrier ==
  /\ pc = "par_iter"
  /\ \A c \in Chunks : task[c].pc \notin {"pending", "panicked", "skipped"}
  /\ result' = Some(DataSet_new(dataset.schema, Flatten(PerChunk)))
  /\ pc' = "end_run"
  /\ UNCHANGED <<inputs, metrics, permits, ranges, task, events, runNo, prev, poll>>

\* Faulty variant of Collect: the rows are moved out of the input table.
Collect_DrainsInput ==
  /\ pc = "par_iter"
  /\ \A c \in Chunks : task[c].pc = "done"
  /\ result' = Some(DataSet_new(dataset.schema, Flatten(PerChunk)))
  /\ dataset' = DataSet_new(dataset.schema, <<>>)
  /\ pc' = "end_run"
  /\ UNCHANGED <<op, closure, opts, observer, metrics, permits, ranges, task,
                 events, runNo, prev, poll>>

\* collect() returned: flatten the per-chunk outputs into the output table.
Collect ==
  /\ pc = "par_iter"
  /\ \A c \in Chunks : task[c].pc = "done"
  /\ result' = Some(DataSet_new(dataset.schema, Flatten(PerChunk)))
  /\ pc' = "end_run"
  /\ UNCHANGED <<inputs, metrics, permits, ranges, task, events, runNo, prev, poll>>

\* A chunk task panicked: once no other chunk task is left running or
\* waiting to be run, the pool resumes the panic in the caller.
Unwind ==
  /\ pc = "par_iter"
  /\ \E c \in Chunks : task[c].pc = "panicked"
  /\ \A c \in Chunks : Finished(c)
  /\ pc' = "panicked"
  /\ UNCHANGED <<inputs, metrics, permits, ranges, task, events, result, runNo, prev, poll>>

\* self.metrics.end_run(start.elapsed())
EndRun ==
  /\ pc = "end_run"
  /\ \E e \in 0..MaxElapsed : metrics' = end_run(metrics, e)
  /\ pc' = "emit_run_finished"
  /\ UNCHANGED <<inputs, permits, ranges, task, events, result, runNo, prev, poll>>

\* self.emit(RunFinished { elapsed: start.elapsed(), metrics: snapshot() }); out
EmitRunFinished ==
  /\ pc = "emit_run_finished"
  /\ \E e \in metrics.elapsed_ns..MaxElapsed : emit(RunFinished(e, snapshot(metrics)))
  /\ pc' = "done"
  /\ UNCHANGED <<inputs, metrics, permits, ranges, task, result, runNo, prev, poll>>

\* The caller repeats the call on the same table with the same closure: on
\* the same engine, or on an engine newly built with other options.
Rerun ==
  /\ pc = "done"
  /\ runNo < MaxRuns
  /\ \E o \in ValidOptions :
       /\ opts' = o
       /\ metrics' = IF o = opts THEN metrics ELSE ExecutionMetrics_new
  /\ prev' = result
  /\ result' = None
  /\ runNo' = runNo + 1
  /\ pc' = "begin_run"
  /\ permits' = 0
  /\ ranges' = <<>>
  /\ task' = <<>>
  /\ events' = <<>>
  /\ UNCHANGED <<op, dataset, closure, observer, poll>>

\* ------------------------------------------------------------------ reduce
\* reduce: self.emit(ExecutionEvent::ReduceStarted { column, op })
EmitReduceStarted ==
  /\ pc = "emit_reduce_started"
  /\ emit(ReduceStarted(closure.column, closure.op))
  /\ pc' = "reduce"
  /\ UNCHANGED <<inputs, metrics, permits, ranges, task, result, runNo, prev, poll>>

\* reduce: let out = reduce(dataset, column, op), on the calling thread
Reduce ==
  /\ pc = "reduce"
  /\ result' = reduce(dataset, closure.column, closure.op)
  /\ pc' = "emit_reduce_finished"
  /\ UNCHANGED <<inputs, metrics, permits, ranges, task, events, runNo, prev, poll>>

\* Faulty variant of EmitReduceFinished: the event is not sent.
EmitReduceFinished_Silent ==
  /\ pc = "emit_reduce_finished"
  /\ pc' = "end_run"
  /\ UNCHANGED <<inputs, metrics, permits, ranges, task, events, result, runNo, prev, poll>>

\* reduce: self.emit(ExecutionEvent::ReduceFinished { result: out.clone() })
EmitReduceFinished ==
  /\ pc = "emit_reduce_finished"
  /\ emit(ReduceFinished(result))
  /\ pc' = "end_run"
  /\ UNCHANGED <<inputs, metrics, permits, ranges, task, result, runNo, prev, poll>>

ReduceStep ==
  \/ EmitReduceStarted
  \/ Reduce
  \/ EmitReduceFinished

\* ---------------------------------------------------- the engine's lifetime
\* ExecutionEngine::new(opts), with_observer. When an assert fails there is no
\* engine. Otherwise the pool is built and, from here on, opts.num_threads
\* is the number of its threads.
New ==
  /\ pc = "new"
  /\ IF NewPanics(opts)
     THEN /\ pc' = "new_panicked"
          /\ UNCHANGED <<opts, metrics>>
     ELSE /\ \E n \in PoolSizes(opts) : opts' = [opts EXCEPT !.num_threads = n]
          /\ metrics' = ExecutionMetrics_new
          /\ pc' = "begin_run"
  /\ UNCHANGED <<op, dataset, closure, observer, permits, ranges, task, events,
                 result, runNo, prev, poll>>

Operations == {"filter", "map", "reduce"}

\* The closures (for reduce: the column and the ReduceOp) that a call of
\* operation o on table d is given. Tables with Null cells are only reduced.
ClosuresFor(o, d) ==
  CASE o = "filter" -> IF d \in DataSets THEN Predicates ELSE {}
    [] o = "map" -> IF d \in DataSets THEN Mappers ELSE {}
    [] o = "reduce" -> ReduceArgs

\* The call has returned and the caller makes the next call on the same
\* engine: any of the three operations, on the same table. For a reduce
\* call prev remembers which operation the call before it was.
CallAgain(o, cl) ==
  /\ pc = "done"
  /\ runNo < MaxRuns
  /\ op' = o
  /\ closure' = cl
  /\ result' = None
  /\ runNo' = runNo + 1
  /\ pc' = "begin_run"
  /\ permits' = 0
  /\ ranges' = <<>>
  /\ task' = <<>>
  /\ events' = <<>>
  /\ prev' = IF o = "reduce" THEN Some(op) ELSE None
  /\ UNCHANGED <<dataset, opts, observer, metrics, poll>>

NextCall == \E o \in Operations : \E cl \in ClosuresFor(o, dataset) : CallAgain(o, cl)

\* ------------------------------------------- polling the metrics handle
\* The fields that begin_run stores into after it has advanced run_id, in
\* the order of the stores, and the caller's position before each store.
BeginRunStores ==
  <<"started_at", "elapsed_ns", "rows_processed", "chunks_started",
    "chunks_finished", "throttle_wait_ns", "active_chunks", "max_active_chunks">>

StorePc ==
  <<"store_started_at", "store_elapsed_ns", "store_rows_processed",
    "store_chunks_started", "store_chunks_finished", "store_throttle_wait_ns",
    "store_active_chunks", "store_max_active_chunks">>

\* begin_run: self.run_id.fetch_add(1)
BeginRunId ==
  /\ pc = "begin_run"
  /\ metrics' = [metrics EXCEPT !.run_id = @ + 1]
  /\ pc' = StorePc[1]
  /\ UNCHANGED <<inputs, permits, ranges, task, events, result, runNo, prev, poll>>

\* begin_run: *started_at = Some(Instant::now()), then store(0) into one
\* counter after the other.
BeginRunStore(i) ==
  /\ pc = StorePc[i]
  /\ metrics' = [metrics EXCEPT ![BeginRunStores[i]] = IF i = 1 THEN Some("now") ELSE 0]
  /\ pc' = IF i = Len(StorePc) THEN "emit_run_started" ELSE StorePc[i + 1]
  /\ UNCHANGED <<inputs, permits, ranges, task, events, result, runNo, prev, poll>>

\* snapshot(), called by a thread that holds the metrics handle: the next
\* load, of the field that is next in the order of the loads.
PollLoad ==
  /\ poll.at < Len(SnapshotFields)
  /\ poll' = [poll EXCEPT !.at = @ + 1,
                           ![SnapshotFields[poll.at + 1]] = metrics[SnapshotFields[poll.at + 1]]]
  /\ UNCHANGED <<inputs, metrics, pc, permits, ranges, task, events, result, runNo, prev>>

\* snapshot() has loaded every field: snapshot(poll) is what it returns.
Polled == poll.at = Len(SnapshotFields)

\* The poller is done with the snapshot it was returned.
PollReturn ==
  /\ Polled
  /\ poll' = NoPoll
  /\ UNCHANGED <<inputs, metrics, pc, permits, ranges, task, events, result, runNo, prev>>

TaskStep(c) ==
  \/ StartTask(c)
  \/ SemAcquire(c)
  \/ ThrottleMetric(c)
  \/ ThrottleEmit(c)
  \/ ChunkStartCount(c)
  \/ ChunkStartActive(c)
  \/ UpdateMaxLoad(c)
  \/ UpdateMaxCas(c)
  \/ EmitChunkStarted(c)
  \/ FilterRow(c)
  \/ MapRow(c)
  \/ MapRowPanic(c)
  \/ EmitChunkFinished(c)
  \/ ChunkEndCount(c)
  \/ ChunkEndActive(c)
  \/ SemRelease(c)

CallerStep ==
  \/ BeginRun
  \/ EmitRunStarted
  \/ Setup
  \/ Collect
  \/ Unwind
  \/ EndRun
  \/ EmitRunFinished

Next ==
  \/ CallerStep
  \/ \E c \in 1..MaxRows : TaskStep(c)
  \/ \E c \in 1..MaxRows : SpuriousWake(c)

\* One call of filter_parallel / map_parallel on a newly built engine.
Spec == Init /\ [][Next]_vars

\* The same, the pool threads being OS threads: each one that can take a
\* step eventually does. Nothing obliges a spurious wake-up to happen.
FairSpec ==
  /\ Spec
  /\ WF_vars(CallerStep)
  /\ \A c \in 1..MaxRows : WF_vars(TaskStep(c))

NextRepeat ==
  \/ Next
  \/ Rerun

\* Calls repeated on the same input.
RepeatSpec == Init /\ [][NextRepeat]_vars

\* A caller has written options and is about to build an engine with them
\* and to call one of its three operations.
SessionInit ==
  /\ op \in Operations
  /\ dataset \in ReduceDataSets
  /\ closure \in ClosuresFor(op, dataset)
  /\ opts \in RawOptions
  /\ observer \in BOOLEAN
  /\ metrics = ExecutionMetrics_new
  /\ pc = "new"
  /\ permits = 0
  /\ ranges = <<>>
  /\ task = <<>>
  /\ events = <<>>
  /\ result = None
  /\ runNo = 1
  /\ prev = None
  /\ poll = NoPoll

SessionNext ==
  \/ New
  \/ Next
  \/ ReduceStep
  \/ NextCall

\* An engine from its construction on, and the calls made on it one after
\* another.
SessionSpec == SessionInit /\ [][SessionNext]_vars

\* ------------------------------------------------- the semaphore by itself
\* A thread that shares the semaphore and calls acquire() and release() in
\* whatever order: what it is doing, whether it has parked, and how many of
\* its calls of each kind have returned.
NewClient ==
  [pc |-> "idle", waited |-> FALSE, calls |-> 0, acquired |-> 0, released |-> 0]

Clients == 1..MaxClients

\* A Semaphore::new(n) shared by the clients; no engine and no run.
SemInit ==
  /\ op = "none"
  /\ dataset = DataSet_new(IdSchema, <<>>)
  /\ closure = <<>>
  /\ opts \in [num_threads : {1}, chunk_size : {1}, max_in_flight_chunks : 1..MaxInFlight]
  /\ observer = FALSE
  /\ metrics = ExecutionMetrics_new
  /\ pc = "semaphore"
  /\ permits = Semaphore_new(opts.max_in_flight_chunks)
  /\ ranges = <<>>
  /\ task = [c \in Clients |-> NewClient]
  /\ events = <<>>
  /\ result = None
  /\ runNo = 1
  /\ prev = None
  /\ poll = NoPoll

\* The client calls acquire().
ClientCallsAcquire(c) ==
  /\ pc = "semaphore"
  /\ task[c].pc = "idle"
  /\ task[c].calls < MaxCalls
  /\ task' = [task EXCEPT ![c].pc = "acquire", ![c].calls = @ + 1]
  /\ UNCHANGED <<inputs, metrics, pc, permits, ranges, events, result, runNo, prev, poll>>

\* Semaphore::acquire: one pass of the loop under the mutex; park on the
\* condition variable, or take a permit and return.
ClientAcquires(c) ==
  /\ pc = "semaphore"
  /\ task[c].pc = "acquire"
  /\ IF MustWait(permits)
     THEN /\ task' = [task EXCEPT ![c].waited = TRUE, ![c].pc = "cv_wait"]
          /\ UNCHANGED permits
     ELSE /\ permits' = permits - 1
          /\ task' = [task EXCEPT ![c].acquired = @ + 1, ![c].pc = "idle"]
  /\ UNCHANGED <<inputs, metrics, pc, ranges, events, result, runNo, prev, poll>>

\* Condvar::wait may return without a notification.
ClientWakes(c) ==
  /\ pc = "semaphore"
  /\ task[c].pc = "cv_wait"
  /\ task' = [task EXCEPT ![c].pc = "acquire"]
  /\ UNCHANGED <<inputs, metrics, pc, permits, ranges, events, result, runNo, prev, poll>>

\* Semaphore::release: *g += 1; cv.notify_one(). Nothing asks whether the
\* caller holds a permit.
ClientReleases(c) ==
  /\ pc = "semaphore"
  /\ task[c].pc = "idle"
  /\ task[c].calls < MaxCalls
  /\ permits' = permits + 1
  /\ task' \in Notified([task EXCEPT ![c].released = @ + 1, ![c].calls = @ + 1])
  /\ UNCHANGED <<inputs, metrics, pc, ranges, events, result, runNo, prev, poll>>

SemNext ==
  \E c \in Clients :
    \/ ClientCallsAcquire(c)
    \/ ClientAcquires(c)
    \/ ClientWakes(c)
    \/ ClientReleases(c)

\* Threads that call acquire() and release() on one semaphore in any order
\* and any interleaving.
SemSpec == SemInit /\ [][SemNext]_vars

\* The same, the threads being scheduled fairly: a thread that is inside
\* acquire and not parked eventually gets the mutex and makes its pass of the
\* loop. Nothing obliges a thread to call acquire or release, or a parked
\* thread to wake without a notification.
SemFairSpec == SemSpec /\ \A c \in Clients : WF_vars(ClientAcquires(c))

\* ---------------------------------------------------- the metrics by itself
\* A thread that holds the metrics handle: what it is doing, the locals of
\* its update_max_usize, and how many calls it has made.
NewCaller == [pc |-> "idle", now |-> 0, cur |-> 0, calls |-> 0]

\* The durations handed to on_throttle_wait, in nanoseconds: none, one,
\* u64::MAX, and one that as_nanos() returns above u64::MAX.
WaitDurations == {0, 1, U64Max, U64Max + 1}

\* An ExecutionMetrics after begin_run, shared by the threads; no engine.
\* prev is what the calls made so far amount to: the sum of the durations
\* added, and the largest count of active chunks that an increment gave.
MetricsInit ==
  /\ op = "none"
  /\ dataset = DataSet_new(IdSchema, <<>>)
  /\ closure = <<>>
  /\ opts = [num_threads |-> 1, chunk_size |-> 1, max_in_flight_chunks |-> 1]
  /\ observer = FALSE
  /\ metrics = begin_run(ExecutionMetrics_new)
  /\ pc = "metrics"
  /\ permits = 0
  /\ ranges = <<>>
  /\ task = [c \in Clients |-> NewCaller]
  /\ events = <<>>
  /\ result = None
  /\ runNo = 1
  /\ prev = [added |-> 0, peak |-> 0]
  /\ poll = NoPoll

\* The thread calls on_throttle_wait(d).
CallerThrottleWait(c, d) ==
  /\ pc = "metrics"
  /\ task[c].pc = "idle"
  /\ task[c].calls < MaxCalls
  /\ metrics' = on_throttle_wait(metrics, d)
  /\ prev' = [prev EXCEPT !.added = @ + d]
  /\ task' = [task EXCEPT ![c].calls = @ + 1]
  /\ UNCHANGED <<inputs, pc, permits, ranges, events, result, runNo, poll>>

\* The thread calls on_chunk_start: chunks_started.fetch_add(1)
CallerChunkStartCount(c) ==
  /\ pc = "metrics"
  /\ task[c].pc = "idle"
  /\ task[c].calls < MaxCalls
  /\ metrics' = [metrics EXCEPT !.chunks_started = @ + 1]
  /\ task' = [task EXCEPT ![c].pc = "cs_active", ![c].calls = @ + 1]
  /\ UNCHANGED <<inputs, pc, permits, ranges, events, result, runNo, prev, poll>>

\* on_chunk_start: let now = active_chunks.fetch_add(1) + 1
CallerChunkStartActive(c) ==
  /\ pc = "metrics"
  /\ task[c].pc = "cs_active"
  /\ metrics' = [metrics EXCEPT !.active_chunks = @ + 1]
  /\ prev' = [prev EXCEPT !.peak = Max(@, metrics.active_chunks + 1)]
  /\ task' = [task EXCEPT ![c].now = metrics.active_chunks + 1, ![c].pc = "cs_load"]
  /\ UNCHANGED <<inputs, pc, permits, ranges, events, result, runNo, poll>>

\* update_max_usize: cur = dst.load(); if now <= cur { break }
CallerUpdateMaxLoad(c) ==
  /\ pc = "metrics"
  /\ task[c].pc = "cs_load"
  /\ IF task[c].now <= metrics.max_active_chunks
     THEN task' = [task EXCEPT ![c].now = 0, ![c].pc = "started"]
     ELSE task' = [task EXCEPT ![c].cur = metrics.max_active_chunks, ![c].pc = "cs_cas"]
  /\ UNCHANGED <<inputs, metrics, pc, permits, ranges, events, result, runNo, prev, poll>>

\* update_max_usize: dst.compare_exchange(cur, now); retry on failure
CallerUpdateMaxCas(c) ==
  /\ pc = "metrics"
  /\ task[c].pc = "cs_cas"
  /\ IF CasSucceeds(metrics.max_active_chunks, task[c].cur)
     THEN /\ metrics' = [metrics EXCEPT !.max_active_chunks = task[c].now]
          /\ task' = [task EXCEPT ![c].now = 0, ![c].cur = 0, ![c].pc = "started"]
     ELSE /\ task' = [task EXCEPT ![c].cur = 0, ![c].pc = "cs_load"]
          /\ UNCHANGED metrics
  /\ UNCHANGED <<inputs, pc, permits, ranges, events, result, runNo, prev, poll>>

\* The thread, its on_chunk_start having returned, calls on_chunk_end:
\* chunks_finished.fetch_add(1)
CallerChunkEndCount(c) ==
  /\ pc = "metrics"
  /\ task[c].pc = "started"
  /\ metrics' = [metrics EXCEPT !.chunks_finished = @ + 1]
  /\ task' = [task EXCEPT ![c].pc = "ce_active"]
  /\ UNCHANGED <<inputs, pc, permits, ranges, events, result, runNo, prev, poll>>

\* on_chunk_end: active_chunks.fetch_sub(1)
CallerChunkEndActive(c) ==
  /\ pc = "metrics"
  /\ task[c].pc = "ce_active"
  /\ metrics' = [metrics EXCEPT !.active_chunks = @ - 1]
  /\ task' = [task EXCEPT ![c].pc = "idle"]
  /\ UNCHANGED <<inputs, pc, permits, ranges, events, result, runNo, prev, poll>>

MetricsNext ==
  \E c \in Clients :
    \/ \E d \in WaitDurations : CallerThrottleWait(c, d)
    \/ CallerChunkStartCount(c)
    \/ CallerChunkStartActive(c)
    \/ CallerUpdateMaxLoad(c)
    \/ CallerUpdateMaxCas(c)
    \/ CallerChunkEndCount(c)
    \/ CallerChunkEndActive(c)

\* Threads that call on_throttle_wait, and on_chunk_start followed by
\* on_chunk_end, on the metrics of one run, in any interleaving.
MetricsSpec == MetricsInit /\ [][MetricsNext]_vars

\* ------------------------------------------------------- mutexes and on_event
\* The two mutexes of the engine: Semaphore.permits and
\* ExecutionMetrics.started_at. A thread's record carries the set of the
\* mutexes whose guard it holds.
Mutexes == {"permits", "started_at"}

\* The caller of filter_parallel is thread 0; the pool threads that run one
\* chunk each are the threads 1..MaxClients.
LockThreads == 0..MaxClients

NewLockThread(t) ==
  [pc |-> IF t = 0 THEN "begin_run" ELSE "pending", locks |-> {}, waited |-> FALSE,
   ev |-> "", next |-> "", polled |-> FALSE]

\* The mutex is unlocked.
Unlocked(m) == \A t \in LockThreads : m \notin task[t].locks

\* Faulty variant of GuardDropped: the guard outlives the function.
GuardDropped_Kept(locks, m) == locks

\* The MutexGuard of m goes out of scope: at the end of the statement in
\* begin_run, at the return of acquire and of release.
GuardDropped(locks, m) == locks \ {m}

\* The mutexes that ExecutionMetrics::snapshot locks: none, it loads atomics.
SnapshotLocks == {}

\* ExecutionMetrics::on_chunk_start, as one step; fetch_add wraps around.
on_chunk_start(m) ==
  LET now == (m.active_chunks + 1) % (UsizeMax + 1) IN
    [m EXCEPT !.chunks_started = @ + 1, !.active_chunks = now,
              !.max_active_chunks = Max(@, now)]

\* ExecutionMetrics::on_chunk_end, as one step; fetch_sub wraps around.
on_chunk_end(m) ==
  [m EXCEPT !.chunks_finished = @ + 1,
            !.active_chunks = (@ + UsizeMax) % (UsizeMax + 1)]

\* One filter_parallel run of as many one-row chunks as there are pool
\* threads, with an observer attached or not.
LockInit ==
  /\ op = "filter"
  /\ dataset = DataSet_new(IdSchema, <<>>)
  /\ closure = <<>>
  /\ opts \in [num_threads : {MaxClients}, chunk_size : {1},
               max_in_flight_chunks : 1..MaxInFlight]
  /\ observer \in BOOLEAN
  /\ metrics = ExecutionMetrics_new
  /\ pc = "mutexes"
  /\ permits = Semaphore_new(opts.max_in_flight_chunks)
  /\ ranges = <<>>
  /\ task = [t \in LockThreads |-> NewLockThread(t)]
  /\ events = <<>>
  /\ result = None
  /\ runNo = 1
  /\ prev = None
  /\ poll = NoPoll

\* The thread's position at self.emit(ev), to go on at next afterwards.
AtEmit(rec, ev, next) == [rec EXCEPT !.pc = "emit", !.ev = ev, !.next = next]

\* begin_run: self.started_at.lock()
LockStartedAt ==
  /\ task[0].pc = "begin_run"
  /\ Unlocked("started_at")
  /\ task' = [task EXCEPT ![0].locks = @ \cup {"started_at"}, ![0].pc = "started_at_locked"]
  /\ UNCHANGED <<inputs, metrics, pc, permits, ranges, events, result, runNo, prev, poll>>

\* begin_run: *guard = Some(Instant::now()), the guard is dropped with the
\* statement, and the counters are stored; then self.emit(RunStarted).
StoreStartedAt ==
  /\ task[0].pc = "started_at_locked"
  /\ metrics' = begin_run(metrics)
  /\ task' = [task EXCEPT
                ![0] = AtEmit([@ EXCEPT !.locks = GuardDropped(@, "started_at")],
                              "RunStarted", "par_iter")]
  /\ UNCHANGED <<inputs, pc, permits, ranges, events, result, runNo, prev, poll>>

\* emit: if let Some(obs) = &self.observer { obs.on_event(&event) } - the
\* thread enters on_event, or goes on when no observer is attached.
CallOnEvent(t) ==
  /\ task[t].pc = "emit"
  /\ IF observer
     THEN /\ events' = Append(events, [type |-> task[t].ev, thread |-> t])
          /\ task' = [task EXCEPT ![t].pc = "on_event"]
     ELSE /\ task' = [task EXCEPT ![t].pc = task[t].next, ![t].ev = "", ![t].next = ""]
          /\ UNCHANGED events
  /\ UNCHANGED <<inputs, metrics, pc, permits, ranges, result, runNo, prev, poll>>

\* The observer calls metrics.snapshot() from inside on_event.
ObserverSnapshot(t) ==
  /\ task[t].pc = "on_event"
  /\ ~task[t].polled
  /\ \A m \in SnapshotLocks : Unlocked(m)
  /\ task' = [task EXCEPT ![t].polled = TRUE]
  /\ UNCHANGED <<inputs, metrics, pc, permits, ranges, events, result, runNo, prev, poll>>

\* on_event returns, after however long the observer took.
OnEventReturns(t) ==
  /\ task[t].pc = "on_event"
  /\ task' = [task EXCEPT ![t].pc = task[t].next, ![t].ev = "", ![t].next = "",
                          ![t].polled = FALSE]
  /\ UNCHANGED <<inputs, metrics, pc, permits, ranges, events, result, runNo, prev, poll>>

\* A pool thread starts the closure of its chunk: sem.acquire()
StartChunk(t) ==
  /\ t # 0
  /\ task[0].pc = "par_iter"
  /\ task[t].pc = "pending"
  /\ task' = [task EXCEPT ![t].pc = "acquire_lock"]
  /\ UNCHANGED <<inputs, metrics, pc, permits, ranges, events, result, runNo, prev, poll>>

\* acquire: self.permits.lock(), and the re-lock at the end of cv.wait(g)
AcquireLocks(t) ==
  /\ task[t].pc \in {"acquire_lock", "cv_relock"}
  /\ Unlocked("permits")
  /\ task' = [task EXCEPT ![t].locks = @ \cup {"permits"}, ![t].pc = "acquire_loop"]
  /\ UNCHANGED <<inputs, metrics, pc, permits, ranges, events, result, runNo, prev, poll>>

\* acquire: while *g == 0 { waited = true; cv.wait(g) } - wait unlocks the
\* mutex and parks; otherwise *g -= 1.
AcquireLoop(t) ==
  /\ task[t].pc = "acquire_loop"
  /\ IF MustWait(permits)
     THEN /\ task' = [task EXCEPT ![t].waited = TRUE, ![t].locks = @ \ {"permits"},
                                  ![t].pc = "cv_wait"]
          /\ UNCHANGED permits
     ELSE /\ permits' = permits - 1
          /\ task' = [task EXCEPT ![t].pc = "acquire_return"]
  /\ UNCHANGED <<inputs, metrics, pc, ranges, events, result, runNo, prev, poll>>

\* Condvar::wait wakes up, notified or not.
CvWakes(t) ==
  /\ task[t].pc = "cv_wait"
  /\ task' = [task EXCEPT ![t].pc = "cv_relock"]
  /\ UNCHANGED <<inputs, metrics, pc, permits, ranges, events, result, runNo, prev, poll>>

\* acquire returns the time waited and its guard is dropped; the closure
\* goes on: if waited > ZERO { on_throttle_wait(waited); emit(ThrottleWaited) }
AcquireReturns(t) ==
  /\ task[t].pc = "acquire_return"
  /\ \E d \in (IF task[t].waited THEN 0..MaxWait ELSE {0}) :
       LET rec == [task[t] EXCEPT !.locks = GuardDropped(@, "permits")] IN
         IF d > 0
         THEN /\ metrics' = on_throttle_wait(metrics, d)
              /\ task' = [task EXCEPT ![t] = AtEmit(rec, "ThrottleWaited", "chunk_start")]
         ELSE /\ task' = [task EXCEPT ![t] = [rec EXCEPT !.pc = "chunk_start"]]
              /\ UNCHANGED metrics
  /\ UNCHANGED <<inputs, pc, permits, ranges, events, result, runNo, prev, poll>>

\* self.metrics.on_chunk_start(); self.emit(ChunkStarted { .. })
ChunkStart(t) ==
  /\ task[t].pc = "chunk_start"
  /\ metrics' = on_chunk_start(metrics)
  /\ task' = [task EXCEPT ![t] = AtEmit(@, "ChunkStarted", "rows")]
  /\ UNCHANGED <<inputs, pc, permits, ranges, events, result, runNo, prev, poll>>

\* The row loop over the chunk's one row; self.emit(ChunkFinished { .. })
ChunkRows(t) ==
  /\ task[t].pc = "rows"
  /\ metrics' = on_row_processed(metrics)
  /\ task' = [task EXCEPT ![t] = AtEmit(@, "ChunkFinished", "chunk_end")]
  /\ UNCHANGED <<inputs, pc, permits, ranges, events, result, runNo, prev, poll>>

\* self.metrics.on_chunk_end(); sem.release()
ChunkEnd(t) ==
  /\ task[t].pc = "chunk_end"
  /\ metrics' = on_chunk_end(metrics)
  /\ task' = [task EXCEPT ![t].pc = "release_lock"]
  /\ UNCHANGED <<inputs, pc, permits, ranges, events, result, runNo, prev, poll>>

\* release: self.permits.lock()
ReleaseLocks(t) ==
  /\ task[t].pc = "release_lock"
  /\ Unlocked("permits")
  /\ task' = [task EXCEPT ![t].locks = @ \cup {"permits"}, ![t].pc = "release_locked"]
  /\ UNCHANGED <<inputs, metrics, pc, permits, ranges, events, result, runNo, prev, poll>>

\* release: *g += 1; self.cv.notify_one(); the guard is dropped at the return.
ReleaseReturns(t) ==
  /\ task[t].pc = "release_locked"
  /\ permits' = permits + 1
  /\ task' = [task EXCEPT ![t].locks = GuardDropped(@, "permits"), ![t].pc = "done"]
  /\ UNCHANGED <<inputs, metrics, pc, ranges, events, result, runNo, prev, poll>>

\* collect() has every chunk: self.metrics.end_run(..); self.emit(RunFinished)
GatherAndEndRun ==
  /\ task[0].pc = "par_iter"
  /\ \A t \in Clients : task[t].pc = "done"
  /\ \E e \in 0..MaxElapsed : metrics' = end_run(metrics, e)
  /\ task' = [task EXCEPT ![0] = AtEmit(@, "RunFinished", "done")]
  /\ UNCHANGED <<inputs, pc, permits, ranges, events, result, runNo, prev, poll>>

LockNext ==
  \/ LockStartedAt
  \/ StoreStartedAt
  \/ GatherAndEndRun
  \/ \E t \in LockThreads :
       \/ CallOnEvent(t)
       \/ ObserverSnapshot(t)
       \/ OnEventReturns(t)
       \/ StartChunk(t)
       \/ AcquireLocks(t)
       \/ AcquireLoop(t)
       \/ CvWakes(t)
       \/ AcquireReturns(t)
       \/ ChunkStart(t)
       \/ ChunkRows(t)
       \/ ChunkEnd(t)
       \/ ReleaseLocks(t)
       \/ ReleaseReturns(t)

\* One run seen at the level of its mutexes: the caller, the pool threads
\* and an observer that may take any time inside on_event.
LockSpec == LockInit /\ [][LockNext]_vars

\* ----------------------------------------- chunk_ranges on machine words
\* The value does not fit a usize.
Overflows(x) == x < 0 \/ x > UsizeMax

\* What is left of the value in a usize when the overflow is not checked.
Wrapped(x) == x % (UsizeMax + 1)

\* Whether the build checks arithmetic overflow (the default of a debug
\* build: the operation panics) or not (the default of a release build: the
\* value wraps around).
Builds == {"overflow-checks", "wrapping"}

\* A call chunk_ranges(row_count, chunk_size) with any two words, the
\* chunk size not zero, in either build.
WordInit ==
  /\ op = "chunk_ranges"
  /\ dataset = DataSet_new(IdSchema, <<>>)
  /\ closure \in Builds
  /\ opts \in [num_threads : {1}, chunk_size : 1..UsizeMax, max_in_flight_chunks : {1}]
  /\ observer = FALSE
  /\ metrics = ExecutionMetrics_new
  /\ pc = "entry"
  /\ permits = 0
  /\ ranges = <<>>
  /\ task \in [row_count : 0..UsizeMax, start : {0}, capacity : {0}, wrapped : {FALSE}]
  /\ events = <<>>
  /\ result = None
  /\ runNo = 1
  /\ prev = None
  /\ poll = NoPoll

\* if row_count == 0 { return Vec::new() }
WordEarlyReturn ==
  /\ pc = "entry"
  /\ task.row_count = 0
  /\ result' = Some(<<>>)
  /\ pc' = "returned"
  /\ UNCHANGED <<inputs, metrics, permits, ranges, task, events, runNo, prev, poll>>

\* Vec::with_capacity((row_count + chunk_size - 1) / chunk_size): the sum,
\* then the difference, each on a usize.
WordCapacity ==
  /\ pc = "entry"
  /\ task.row_count # 0
  /\ LET sum == task.row_count + opts.chunk_size
         diff == Wrapped(sum) - 1
     IN IF closure = "overflow-checks" /\ (Overflows(sum) \/ Overflows(diff))
        THEN /\ pc' = "panicked"
             /\ task' = task
        ELSE /\ pc' = "loop"
             /\ task' = [task EXCEPT !.capacity = Wrapped(diff) \div opts.chunk_size,
                                      !.wrapped = Overflows(sum) \/ Overflows(diff)]
  /\ UNCHANGED <<inputs, metrics, permits, ranges, events, result, runNo, prev, poll>>

\* while start < row_count { end = (start + chunk_size).min(row_count);
\* out.push(start..end); start = end }: one pass. A Vec holds no more
\* elements than a usize counts.
WordLoop ==
  /\ pc = "loop"
  /\ task.start < task.row_count
  /\ LET sum == task.start + opts.chunk_size
         end == Min(Wrapped(sum), task.row_count)
     IN IF (closure = "overflow-checks" /\ Overflows(sum)) \/ Len(ranges) = UsizeMax
        THEN /\ pc' = "panicked"
             /\ UNCHANGED <<task, ranges>>
        ELSE /\ ranges' = Append(ranges, Range(task.start, end))
             /\ task' = [task EXCEPT !.start = end, !.wrapped = @ \/ Overflows(sum)]
             /\ pc' = pc
  /\ UNCHANGED <<inputs, metrics, permits, events, result, runNo, prev, poll>>

\* start < row_count is false: out is returned.
WordReturn ==
  /\ pc = "loop"
  /\ task.start >= task.row_count
  /\ result' = Some(ranges)
  /\ pc' = "returned"
  /\ UNCHANGED <<inputs, metrics, permits, ranges, task, events, runNo, prev, poll>>

WordNext ==
  \/ WordEarlyReturn
  \/ WordCapacity
  \/ WordLoop
  \/ WordReturn

\* chunk_ranges alone, computed on machine words.
WordSpec == WordInit /\ [][WordNext]_vars

\* ------------------------------------------- two callers on one engine
\* A thread that calls filter_parallel on the engine, over a table of one
\* row: one chunk, which finds a permit of the run's own semaphore at once.
NewRunner == [pc |-> "idle", calls |-> 0]

TwoRunInit ==
  /\ op = "filter"
  /\ dataset = DataSet_new(IdSchema, <<<<0>>>>)
  /\ closure = [r \in Rows |-> TRUE]
  /\ opts = [num_threads |-> MaxClients, chunk_size |-> 1, max_in_flight_chunks |-> 1]
  /\ observer = FALSE
  /\ metrics = ExecutionMetrics_new
  /\ pc = "callers"
  /\ permits = 0
  /\ ranges = chunk_ranges(1, 1)
  /\ task = [c \in Clients |-> NewRunner]
  /\ events = <<>>
  /\ result = None
  /\ runNo = 0
  /\ prev = None
  /\ poll = NoPoll

\* The thread calls filter_parallel: self.metrics.begin_run()
RunBegins(c) ==
  /\ pc = "callers"
  /\ task[c].pc = "idle"
  /\ task[c].calls < MaxCalls
  /\ metrics' = begin_run(metrics)
  /\ runNo' = runNo + 1
  /\ task' = [task EXCEPT ![c].pc = "chunk_start", ![c].calls = @ + 1]
  /\ UNCHANGED <<inputs, pc, permits, ranges, events, result, prev, poll>>

\* The chunk of the thread's run: self.metrics.on_chunk_start()
RunChunkStarts(c) ==
  /\ pc = "callers"
  /\ task[c].pc = "chunk_start"
  /\ metrics' = on_chunk_start(metrics)
  /\ task' = [task EXCEPT ![c].pc = "rows"]
  /\ UNCHANGED <<inputs, pc, permits, ranges, events, result, runNo, prev, poll>>

\* The row loop over the one row: self.metrics.on_row_processed()
RunRow(c) ==
  /\ pc = "callers"
  /\ task[c].pc = "rows"
  /\ metrics' = on_row_processed(metrics)
  /\ task' = [task EXCEPT ![c].pc = "chunk_end"]
  /\ UNCHANGED <<inputs, pc, permits, ranges, events, result, runNo, prev, poll>>

\* self.metrics.on_chunk_end()
RunChunkEnds(c) ==
  /\ pc = "callers"
  /\ task[c].pc = "chunk_end"
  /\ metrics' = on_chunk_end(metrics)
  /\ task' = [task EXCEPT ![c].pc = "end_run"]
  /\ UNCHANGED <<inputs, pc, permits, ranges, events, result, runNo, prev, poll>>

\* self.metrics.end_run(start.elapsed()), and the call returns.
RunEnds(c) ==
  /\ pc = "callers"
  /\ task[c].pc = "end_run"
  /\ \E e \in 0..MaxElapsed : metrics' = end_run(metrics, e)
  /\ task' = [task EXCEPT ![c].pc = "idle"]
  /\ UNCHANGED <<inputs, pc, permits, ranges, events, result, runNo, prev, poll>>

TwoRunNext ==
  \E c \in Clients :
    \/ RunBegins(c)
    \/ RunChunkStarts(c)
    \/ RunRow(c)
    \/ RunChunkEnds(c)
    \/ RunEnds(c)

\* Threads that share one engine and call filter_parallel on it whenever
\* they like, also while another thread's call is in progress.
TwoRunSpec == TwoRunInit /\ [][TwoRunNext]_vars

\* --------------------------------------------------------------- ingestion
\* IngestionSeverity, in the order of its declaration, which is the order
\* that derive(PartialOrd, Ord) compares by.
Severities == <<"Info", "Warning", "Error", "Critical">>

Rank(sev) == CHOOSE i \in 1..Len(Severities) : Severities[i] = sev

\* IngestionFormat
Formats == {"Csv", "Json", "Parquet", "Excel"}

\* The extension of the path handed to ingest_from_path; "" is a path
\* without an extension.
Extensions ==
  {"csv", "CSV", "Csv", "json", "JSON", "ndjson", "parquet", "pq", "PQ",
   "xlsx", "xls", "XLS", "xlsm", "xlsb", "ods", "Ods", "txt", "TXT", "gz", ""}

\* Faulty variant of to_ascii_lowercase: the extension is matched as written.
to_ascii_lowercase_AsWritten(ext) == ext

\* str::to_ascii_lowercase on the extensions above.
to_ascii_lowercase(ext) ==
  CASE ext \in {"CSV", "Csv"} -> "csv"
    [] ext = "JSON" -> "json"
    [] ext = "PQ" -> "pq"
    [] ext = "XLS" -> "xls"
    [] ext = "Ods" -> "ods"
    [] ext = "TXT" -> "txt"
    [] OTHER -> ext

\* IngestionFormat::from_extension
from_extension(ext) ==
  CASE to_ascii_lowercase(ext) = "csv" -> Some("Csv")
    [] to_ascii_lowercase(ext) \in {"json", "ndjson"} -> Some("Json")
    [] to_ascii_lowercase(ext) \in {"parquet", "pq"} -> Some("Parquet")
    [] to_ascii_lowercase(ext) \in {"xlsx", "xls", "xlsm", "xlsb", "ods"} -> Some("Excel")
    [] OTHER -> None

\* An IngestionError: its variant; whether an I/O error can be told from its
\* structure (the Io variant, a csv error of kind Io, a parquet error with an
\* io::Error in its source chain); and what made the ingestion fail.
IngestionError(variant, io, cause) == [variant |-> variant, io |-> io, cause |-> cause]

Ok(ds) == [ok |-> TRUE, dataset |-> ds]

Err(e) == [ok |-> FALSE, error |-> e]

\* infer_format_from_path
infer_format_from_path(ext) ==
  IF ext = "" \/ from_extension(ext) = None
  THEN Err(IngestionError("SchemaMismatch", FALSE, "format"))
  ELSE [ok |-> TRUE, format |-> from_extension(ext)[1]]

\* The errors the adapter of a format returns. Each adapter opens the file
\* (an I/O failure) and then checks and parses its content (SchemaMismatch,
\* ParseError, or an error of the format's library). A failure to open comes
\* back as a csv error of kind Io, as IngestionError::Io (json), as a parquet
\* error that holds the io::Error in its source chain or only its text, and
\* as IngestionError::Excel. Without the excel feature the Excel adapter
\* returns SchemaMismatch.
AdapterErrors(fmt) ==
  {IngestionError("SchemaMismatch", FALSE, "schema"),
   IngestionError("ParseError", FALSE, "parse")}
  \cup CASE fmt = "Csv" -> {IngestionError("Csv", TRUE, "io"),
                            IngestionError("Csv", FALSE, "parse")}
         [] fmt = "Json" -> {IngestionError("Io", TRUE, "io")}
         [] fmt = "Parquet" -> {IngestionError("Parquet", TRUE, "io"),
                                IngestionError("Parquet", FALSE, "io"),
                                IngestionError("Parquet", FALSE, "parse")}
         [] fmt = "Excel" -> {IngestionError("Excel", FALSE, "io"),
                              IngestionError("Excel", FALSE, "parse")}

\* What csv::ingest_csv_from_path, json::.., parquet::.., ingest_excel_dispatch
\* return.
AdapterResults(fmt) == {Ok(ds) : ds \in DataSets} \cup {Err(e) : e \in AdapterErrors(fmt)}

severity_for_error(e) ==
  CASE e.variant = "Io" -> "Critical"
    [] e.variant = "Parquet" -> IF e.io THEN "Critical" ELSE "Error"
    [] e.variant = "Csv" -> IF e.io THEN "Critical" ELSE "Error"
    [] e.variant = "Excel" -> "Error"
    [] e.variant = "SchemaMismatch" -> "Error"
    [] e.variant = "ParseError" -> "Error"

\* Faulty variant of AlertDue: only above the threshold.
AlertDue_Above(sev, threshold) == Rank(sev) > Rank(threshold)

\* sev >= options.alert_at_or_above
AlertDue(sev, threshold) == Rank(sev) >= Rank(threshold)

\* The observer of the options: none; one that implements on_failure and
\* on_alert (as tests' RecordingObserver); one that leaves on_alert to the
\* trait's default, which forwards to on_failure; a CompositeObserver.
Observers == {"none", "recording", "default_alert", "composite"}

\* The observers the CompositeObserver was made of, in the order of its list.
CompositeObservers == <<"recording", "default_alert">>

\* IngestionOptions; format "None" is Option::None.
IngestionOptions ==
  [format : {"None"} \cup Formats,
   observer : Observers,
   alert_at_or_above : {Severities[i] : i \in 1..Len(Severities)}]

\* The calls the observer receives.
OnSuccess(fmt, rows) == [type |-> "on_success", format |-> fmt, rows |-> rows]

OnFailure(fmt, sev, e) == [type |-> "on_failure", format |-> fmt, severity |-> sev, error |-> e]

OnAlert(fmt, sev, e) == [type |-> "on_alert", format |-> fmt, severity |-> sev, error |-> e]

\* A method that the observer o implements itself is run with the call.
Handled(o, call) == <<[observer |-> o, call |-> call]>>

\* Faulty variant of default_on_alert: an empty body, as the defaults of
\* on_success and on_failure.
default_on_alert_Empty(o, call) == <<>>

\* The default body of IngestionObserver::on_alert:
\* self.on_failure(ctx, severity, error)
default_on_alert(o, call) == Handled(o, OnFailure(call.format, call.severity, call.error))

\* What the call of a method of the observer o runs: for a
\* CompositeObserver, for o in &self.observers { o.<method>(..) }; for an
\* observer without an on_alert of its own, the default body; else the
\* observer's method.
RECURSIVE Dispatch(_, _)
RECURSIVE ForEach(_, _)
Dispatch(o, call) ==
  CASE o = "composite" -> ForEach(CompositeObservers, call)
    [] o = "default_alert" /\ call.type = "on_alert" -> default_on_alert(o, call)
    [] OTHER -> Handled(o, call)

ForEach(observers, call) ==
  IF observers = <<>> THEN <<>>
  ELSE Dispatch(Head(observers), call) \o ForEach(Tail(observers), call)

\* A call of ingest_from_path: closure is the extension of the path, opts the
\* IngestionOptions, task the call's locals, events the calls the observer
\* has received, prev the methods that it and the observers it wraps have run,
\* result the adapter's result, returned once pc is "returned".
IngestInit ==
  /\ op = "ingest"
  /\ dataset = DataSet_new(IdSchema, <<>>)
  /\ closure \in Extensions
  /\ opts \in IngestionOptions
  /\ observer = (opts.observer # "none")
  /\ metrics = ExecutionMetrics_new
  /\ pc = "ingest"
  /\ permits = 0
  /\ ranges = <<>>
  /\ task = [fmt |-> "None"]
  /\ events = <<>>
  /\ result = None
  /\ runNo = 1
  /\ prev = None
  /\ poll = NoPoll

\* let fmt = match options.format { Some(f) => f, None => infer_format_from_path(path)? }
ResolveFormat ==
  /\ pc = "ingest"
  /\ IF opts.format # "None"
     THEN /\ task' = [fmt |-> opts.format]
          /\ pc' = "adapter"
          /\ UNCHANGED result
     ELSE IF infer_format_from_path(closure).ok
     THEN /\ task' = [fmt |-> infer_format_from_path(closure).format]
          /\ pc' = "adapter"
          /\ UNCHANGED result
     ELSE /\ result' = Some(infer_format_from_path(closure))
          /\ pc' = "returned"
          /\ UNCHANGED task
  /\ UNCHANGED <<inputs, metrics, permits, ranges, events, runNo, prev, poll>>

\* let result = match fmt { .. }; if let Some(obs) = options.observer
Adapter ==
  /\ pc = "adapter"
  /\ \E r \in AdapterResults(task.fmt) :
       /\ result' = Some(r)
       /\ pc' = IF ~observer THEN "returned"
                ELSE IF r.ok THEN "on_success" ELSE "on_failure"
  /\ UNCHANGED <<inputs, metrics, permits, ranges, task, events, runNo, prev, poll>>

\* Ok(ds) => obs.on_success(&ctx, IngestionStats { rows: ds.row_count() })
NotifySuccess ==
  /\ pc = "on_success"
  /\ emit(OnSuccess(task.fmt, row_count(result[1].dataset)))
  /\ prev' = prev \o Dispatch(opts.observer,
                               OnSuccess(task.fmt, row_count(result[1].dataset)))
  /\ pc' = "returned"
  /\ UNCHANGED <<inputs, metrics, permits, ranges, task, result, runNo, poll>>

\* Err(e) => let sev = severity_for_error(e); obs.on_failure(&ctx, sev, e);
\* if sev >= options.alert_at_or_above
NotifyFailure ==
  /\ pc = "on_failure"
  /\ emit(OnFailure(task.fmt, severity_for_error(result[1].error), result[1].error))
  /\ prev' = prev \o Dispatch(opts.observer,
                               OnFailure(task.fmt, severity_for_error(result[1].error),
                                         result[1].error))
  /\ pc' = IF AlertDue(severity_for_error(result[1].error), opts.alert_at_or_above)
           THEN "on_alert" ELSE "returned"
  /\ UNCHANGED <<inputs, metrics, permits, ranges, task, result, runNo, poll>>

\* obs.on_alert(&ctx, sev, e); the trait's default on_alert calls
\* self.on_failure(ctx, severity, error).
NotifyAlert ==
  /\ pc = "on_alert"
  /\ events' =
       events
       \o <<OnAlert(task.fmt, severity_for_error(result[1].error), result[1].error)>>
       \o (IF opts.observer = "default_alert"
           THEN <<OnFailure(task.fmt, severity_for_error(result[1].error), result[1].error)>>
           ELSE <<>>)
  /\ prev' = prev \o Dispatch(opts.observer,
                               OnAlert(task.fmt, severity_for_error(result[1].error),
                                       result[1].error))
  /\ pc' = "returned"
  /\ UNCHANGED <<inputs, metrics, permits, ranges, task, result, runNo, poll>>

IngestNext ==
  \/ ResolveFormat
  \/ Adapter
  \/ NotifySuccess
  \/ NotifyFailure
  \/ NotifyAlert

\* One call of ingest_from_path.
IngestSpec == IngestInit /\ [][IngestNext]_vars

\* The calls that are polled: tables of equal rows, a predicate that keeps
\* every row, the identity mapper and a mapper of the wrong arity, a Count.
PollDataSets == {DataSet_new(IdSchema, [i \in 1..n |-> <<0>>]) : n \in 0..PollRows}

PollClosures(o) ==
  CASE o = "filter" -> {[r \in Rows |-> TRUE]}
    [] o = "map" -> {[r \in Rows |-> r], [r \in Rows |-> <<>>]}
    [] o = "reduce" -> {[column |-> "id", op |-> "Count"]}

PollOptions ==
  [num_threads : 1..MaxThreads, chunk_size : {1}, max_in_flight_chunks : 1..MaxInFlight]

PollInit ==
  /\ op \in Operations
  /\ dataset \in PollDataSets
  /\ closure \in PollClosures(op)
  /\ opts \in PollOptions
  /\ observer = FALSE
  /\ metrics = ExecutionMetrics_new
  /\ pc = "begin_run"
  /\ permits = 0
  /\ ranges = <<>>
  /\ task = <<>>
  /\ events = <<>>
  /\ result = None
  /\ runNo = 1
  /\ prev = None
  /\ poll = NoPoll

PollNextCall == \E o \in Operations : \E cl \in PollClosures(o) : CallAgain(o, cl)

PollNext ==
  \/ BeginRunId
  \/ \E i \in 1..Len(StorePc) : BeginRunStore(i)
  \/ EmitRunStarted
  \/ Setup
  \/ Collect
  \/ Unwind
  \/ EndRun
  \/ EmitRunFinished
  \/ ReduceStep
  \/ \E c \in 1..MaxRows : TaskStep(c)
  \/ \E c \in 1..MaxRows : SpuriousWake(c)
  \/ PollNextCall
  \/ PollLoad
  \/ PollReturn

\* The calls made on an engine one after another while another thread, which
\* holds the metrics handle, takes snapshots. Here begin_run is taken store
\* by store and snapshot() load by load.
PollSpec == PollInit /\ [][PollNext]_vars


\* ============================================================ properties
CountType(evs, t) == Cardinality({i \in 1..Len(evs) : evs[i].type = t})

\* Chunks that an observer counting ChunkStarted / ChunkFinished sees active.
ActiveByEvents(evs) == CountType(evs, "ChunkStarted") - CountType(evs, "ChunkFinished")

Prefix(evs, n) == SubSeq(evs, 1, n)

\* i < j and the events at i and j are ChunkFinished of chunks a and b.
FinishedInOrder(a, b) ==
  \E i, j \in 1..Len(events) :
    /\ i < j
    /\ events[i].type = "ChunkFinished" /\ events[i].chunk = a
    /\ events[j].type = "ChunkFinished" /\ events[j].chunk = b

\* Some chunk finished before a chunk of lower index did.
OutOfOrderCompletion == \E a, b \in Chunks : a > b /\ FinishedInOrder(a, b)

\* C1: in every state of a filter_parallel / map_parallel run the number of
\* active chunks is at most max_in_flight_chunks, whether it is counted from
\* the events delivered so far, from the metrics' counters, or read from the
\* metrics' max_active_chunks.
C1_ActiveChunksBounded ==
  /\ ActiveByEvents(events) <= opts.max_in_flight_chunks
  /\ metrics.active_chunks <= opts.max_in_flight_chunks
  /\ metrics.chunks_started - metrics.chunks_finished <= opts.max_in_flight_chunks
  /\ metrics.max_active_chunks <= opts.max_in_flight_chunks

\* The cap is reached while another chunk task is parked in acquire.
C1_Witness ==
  /\ observer
  /\ ActiveByEvents(events) = opts.max_in_flight_chunks
  /\ metrics.active_chunks = opts.max_in_flight_chunks
  /\ \E c \in Chunks : task[c].pc = "cv_wait"

\* C2: filter_parallel returns the rows for which the predicate is true, in
\* the original row order, with the input's schema: the table that the
\* sequential DataSet::filter_rows returns, whatever the order in which the
\* chunks complete.
C2_FilterMatchesSequential ==
  (op = "filter" /\ pc = "done") => result = Some(filter_rows(dataset, closure))

\* A filter run over several chunks that finished out of order, in which the
\* predicate kept some rows and dropped others.
C2_Witness ==
  /\ op = "filter"
  /\ pc = "done"
  /\ observer
  /\ OutOfOrderCompletion
  /\ Len(result[1].rows) < Len(dataset.rows)
  /\ Len(result[1].rows) >= 2

\* C3: map_parallel returns a table with as many rows as the input whose
\* row i is mapper(input row i), whatever the order in which the chunks
\* complete.
C3_MapRowwise ==
  (op = "map" /\ pc = "done") =>
    /\ result # None
    /\ Len(result[1].rows) = Len(dataset.rows)
    /\ \A i \in 1..Len(dataset.rows) : result[1].rows[i] = closure[dataset.rows[i]]

\* A map run over several chunks that finished out of order, with a mapper
\* that changes rows and an input of different rows.
C3_Witness ==
  /\ op = "map"
  /\ pc = "done"
  /\ observer
  /\ OutOfOrderCompletion
  /\ result[1].rows # dataset.rows
  /\ \E i, j \in 1..Len(result[1].rows) : result[1].rows[i] # result[1].rows[j]


\* The closure returns normally on every row of the table.
Faultless ==
  \/ op = "filter"
  \/ \A i \in 1..Len(dataset.rows) : Len(closure[dataset.rows[i]]) = expected_len

FreeThreads == opts.num_threads - Cardinality(TasksOnThreads)

\* The chunk task cannot take its next step.
Blocked(c) ==
  \/ task[c].pc = "cv_wait"
  \/ task[c].pc = "acquire" /\ MustWait(permits)
  \/ task[c].pc = "pending" /\ FreeThreads = 0

\* Chunk tasks remain and each of them is blocked.
AllBlocked ==
  /\ pc = "par_iter"
  /\ \E c \in Chunks : ~Finished(c)
  /\ \A c \in Chunks : ~Finished(c) => Blocked(c)

\* C4: if the closure does not fault then, the pool threads being scheduled
\* fairly, the run returns; by then every chunk task has got a permit,
\* finished and released it; and in no state are all remaining chunk tasks
\* blocked.
C4_RunTerminates ==
  /\ (Faultless ~> pc = "done")
  /\ [](Faultless => ~AllBlocked)
  /\ [](pc = "done" =>
          /\ \A c \in Chunks : task[c].pc = "done"
          /\ permits = opts.max_in_flight_chunks)

\* A run with more chunks than permits has returned, and a chunk task had
\* parked in acquire.
C4_Witness ==
  /\ pc = "done"
  /\ Faultless
  /\ K > opts.max_in_flight_chunks
  /\ \E c \in Chunks : task[c].waited

\* The mapper returns a row of the wrong length for some row of the table.
ArityFault ==
  /\ op = "map"
  /\ \E i \in 1..Len(dataset.rows) : Len(closure[dataset.rows[i]]) # expected_len

\* No permit is left, no chunk task holds one that it will release, and a
\* chunk task is in acquire: it stays there.
Hung ==
  /\ pc = "par_iter"
  /\ permits = 0
  /\ \A c \in Chunks : ~HoldsPermit(c)
  /\ \E c \in Chunks : task[c].pc \in {"acquire", "cv_wait"}

\* C5: when the mapper returns a row of the wrong length, map_parallel
\* never returns an output table and never hangs.
C5_ArityFaultAborts == ArityFault => (pc # "done" /\ ~Hung)

Indices(r) == r.start..(r.end - 1)

CeilDiv(r, c) == (r + c - 1) \div c

\* C7: after a completed run over R rows in K chunks a snapshot of the metrics
\* has rows_processed = R, chunks_started = chunks_finished = K and
\* max_active_chunks <= max_in_flight_chunks.
C7_MetricsAfterRun ==
  pc = "done" =>
    LET snap == snapshot(metrics)
        R == row_count(dataset)
    IN /\ snap.rows_processed = R
       /\ snap.chunks_started = CeilDiv(R, opts.chunk_size)
       /\ snap.chunks_finished = CeilDiv(R, opts.chunk_size)
       /\ snap.max_active_chunks <= opts.max_in_flight_chunks

\* A completed filter run over several chunks whose predicate dropped rows.
C7_Witness ==
  /\ pc = "done"
  /\ op = "filter"
  /\ K >= 2
  /\ Len(result[1].rows) < row_count(dataset)

\* The positions in the event stream of the events of type t of chunk c.
At(t, c) == {i \in 1..Len(events) : events[i].type = t /\ events[i].chunk = c}

ChunkEventTypes == {"ThrottleWaited", "ChunkStarted", "ChunkFinished"}

\* C8: in the event stream of a run RunStarted is first and RunFinished last,
\* each once; the chunk events lie between them; every chunk has exactly one
\* ChunkStarted and one ChunkFinished, in this order, and at most one
\* ThrottleWaited, before its ChunkStarted.
C8_EventOrder ==
  observer =>
    /\ \A i \in 1..Len(events) :
         /\ events[i].type = "RunStarted" <=> i = 1
         /\ events[i].type = "RunFinished" => (i = Len(events) /\ pc = "done")
         /\ events[i].type \in ChunkEventTypes \cup {"RunStarted", "RunFinished"}
    /\ \A c \in Chunks :
         /\ Cardinality(At("ThrottleWaited", c)) <= 1
         /\ Cardinality(At("ChunkStarted", c)) <= 1
         /\ Cardinality(At("ChunkFinished", c)) <= 1
         /\ \A i \in At("ChunkFinished", c) : \E j \in At("ChunkStarted", c) : j < i
         /\ \A i \in At("ThrottleWaited", c) : \A j \in At("ChunkStarted", c) : i < j
    /\ pc = "done" =>
         /\ events[Len(events)].type = "RunFinished"
         /\ CountType(events, "RunStarted") = 1
         /\ CountType(events, "RunFinished") = 1
         /\ CountType(events, "ChunkStarted") = CeilDiv(row_count(dataset), opts.chunk_size)
         /\ CountType(events, "ChunkFinished") = CeilDiv(row_count(dataset), opts.chunk_size)
         /\ \A c \in Chunks : At("ChunkStarted", c) # {} /\ At("ChunkFinished", c) # {}

\* A completed run over several chunks, one of which waited for its permit,
\* whose chunks finished out of order.
C8_Witness ==
  /\ pc = "done"
  /\ observer
  /\ CountType(events, "ThrottleWaited") >= 1
  /\ OutOfOrderCompletion

\* The largest number of active chunks an observer counts over the stream.
PeakByEvents(evs) ==
  CHOOSE m \in 0..Len(evs) :
    /\ \E n \in 0..Len(evs) : ActiveByEvents(Prefix(evs, n)) = m
    /\ \A n \in 0..Len(evs) : ActiveByEvents(Prefix(evs, n)) <= m

\* C9: with max_in_flight_chunks = 1 no ChunkStarted is delivered while a
\* chunk that has started has not delivered its ChunkFinished, and after a
\* run over a non-empty table the peak number of active chunks is exactly 1.
C9_SerialisedByCapOfOne ==
  opts.max_in_flight_chunks = 1 =>
    /\ \A i \in 1..Len(events) :
         events[i].type = "ChunkStarted" => ActiveByEvents(Prefix(events, i - 1)) = 0
    /\ (pc = "done" /\ row_count(dataset) > 0) =>
         /\ metrics.max_active_chunks = 1
         /\ observer => PeakByEvents(events) = 1

\* A completed run with a cap of 1 on a pool of two threads, over several
\* chunks, in which a chunk task had to wait for the permit.
C9_Witness ==
  /\ pc = "done"
  /\ observer
  /\ opts.max_in_flight_chunks = 1
  /\ opts.num_threads >= 2
  /\ K >= 2
  /\ \E c \in Chunks : task[c].waited

\* C10: a call repeated with the same closure on the same table returns the
\* table the call before it returned, whatever the options and the schedules
\* of the two calls.
C10_RepeatedRunSameOutput == (pc = "done" /\ runNo >= 2) => result = prev

\* The second call ran on an engine built with other options, over several
\* chunks that finished out of order, and returned different rows.
C10_Witness ==
  /\ pc = "done"
  /\ runNo = 2
  /\ metrics.run_id = 1
  /\ observer
  /\ OutOfOrderCompletion
  /\ \E i, j \in 1..Len(result[1].rows) : result[1].rows[i] # result[1].rows[j]

\* C11: ExecutionEngine::new fails, and leaves no engine to call, exactly
\* when chunk_size is 0, max_in_flight_chunks is 0 or num_threads is Some(0)
\* (not when it is None);
\* so every run has a positive chunk size, a pool of at least one thread and
\* a semaphore created with at least one permit.
C11_NewRejectsZeroOptions ==
  /\ [][pc = "new" =>
          (pc' = "new_panicked" <=>
             \/ opts.chunk_size = 0
             \/ opts.max_in_flight_chunks = 0
             \/ opts.num_threads = 0)]_vars
  /\ [][pc # "new_panicked"]_vars
  /\ [](pc \notin {"new", "new_panicked"} =>
          /\ opts.chunk_size > 0
          /\ opts.max_in_flight_chunks > 0
          /\ opts.num_threads > 0)
  /\ [][pc = "setup" => permits' > 0]_vars

\* Construction was refused for num_threads = Some(0) alone.
C11_Witness ==
  /\ pc = "new_panicked"
  /\ opts.num_threads = 0
  /\ opts.chunk_size > 0
  /\ opts.max_in_flight_chunks > 0

\* C12: no step of filter_parallel, map_parallel or reduce changes the input
\* table, and the table filter_parallel / map_parallel returns has the
\* input's schema.
C12_InputUnchanged ==
  /\ [][dataset' = dataset]_vars
  /\ []((pc = "done" /\ op \in {"filter", "map"}) =>
          /\ result # None
          /\ result[1].schema = dataset.schema)

\* The second call on the same table, a map that returned other rows.
C12_Witness ==
  /\ pc = "done"
  /\ runNo = 2
  /\ op = "map"
  /\ row_count(dataset) = MaxRows
  /\ result[1].rows # dataset.rows

\* The counters that begin_run resets are all zero.
CountersZero(m) ==
  /\ m.elapsed_ns = 0
  /\ m.rows_processed = 0
  /\ m.chunks_started = 0
  /\ m.chunks_finished = 0
  /\ m.throttle_wait_ns = 0
  /\ m.active_chunks = 0
  /\ m.max_active_chunks = 0

\* C13: over the runs made one after another on one engine, run_id changes
\* only in the first step of a run, by one, and that step zeroes every
\* counter; during and after the n-th run run_id is n; after a run the
\* snapshot shows that run alone: zero counters after a reduce, and R rows
\* and K chunks after a filter or map over R rows in K chunks.
C13_MetricsArePerRun ==
  /\ [][metrics'.run_id # metrics.run_id => pc = "begin_run"]_vars
  /\ [][pc = "begin_run" =>
          /\ metrics'.run_id = metrics.run_id + 1
          /\ CountersZero(metrics')]_vars
  /\ [](pc \notin {"new", "new_panicked", "begin_run"} => metrics.run_id = runNo)
  /\ []((pc = "done" /\ op = "reduce") =>
          /\ snapshot(metrics).rows_processed = 0
          /\ snapshot(metrics).chunks_started = 0
          /\ snapshot(metrics).chunks_finished = 0
          /\ snapshot(metrics).throttle_wait = 0
          /\ snapshot(metrics).max_active_chunks = 0)
  /\ []((pc = "done" /\ op # "reduce") =>
          /\ snapshot(metrics).rows_processed = row_count(dataset)
          /\ snapshot(metrics).chunks_started = CeilDiv(row_count(dataset), opts.chunk_size)
          /\ snapshot(metrics).chunks_finished = CeilDiv(row_count(dataset), opts.chunk_size))

\* A reduce run has returned that followed a filter run over several chunks
\* on the same engine.
C13_Witness ==
  /\ pc = "done"
  /\ runNo = 2
  /\ op = "reduce"
  /\ prev = Some("filter")
  /\ metrics.run_id = 2
  /\ row_count(dataset) > opts.chunk_size

\* C14: after a completed filter_parallel, map_parallel or reduce run the
\* snapshot's elapsed is present and positive.
C14_ElapsedPresentAfterRun ==
  pc = "done" =>
    /\ snapshot(metrics).elapsed # None
    /\ snapshot(metrics).elapsed[1] > 0

\* The event types of a reduce run, in order.
ReduceEventTypes == <<"RunStarted", "ReduceStarted", "ReduceFinished", "RunFinished">>

\* C17: the events of a reduce call are, in this order, RunStarted,
\* ReduceStarted(column, op), ReduceFinished(result), RunFinished, and no
\* other event, also when the column does not exist.
C17_ReduceEvents ==
  (op = "reduce" /\ observer) =>
    /\ Len(events) <= 4
    /\ \A i \in 1..Len(events) : events[i].type = ReduceEventTypes[i]
    /\ pc = "done" =>
         /\ Len(events) = 4
         /\ events[2] = ReduceStarted(closure.column, closure.op)
         /\ events[3].type = "ReduceFinished"

\* A reduce call on a column that the schema does not have has returned.
C17_Witness ==
  /\ pc = "done"
  /\ op = "reduce"
  /\ observer
  /\ closure.column = "missing"
  /\ Len(events) = 4

\* The non-null cells of the table's only column, in row order.
RECURSIVE NonNull(_)
NonNull(rows) ==
  IF rows = <<>> THEN <<>>
  ELSE (IF Head(rows)[1] = Null THEN <<>> ELSE <<Head(rows)[1]>>) \o NonNull(Tail(rows))

RECURSIVE SumOf(_)
SumOf(vs) == IF vs = <<>> THEN 0 ELSE Head(vs) + SumOf(Tail(vs))

Elems(vs) == {vs[i] : i \in 1..Len(vs)}

\* What reduce is documented to return for the only column of the table.
Expected(rows, rop) ==
  CASE rop = "Count" -> Some(Len(rows))
    [] NonNull(rows) = <<>> /\ rop # "Count" -> Some(Null)
    [] NonNull(rows) # <<>> /\ rop = "Sum" -> Some(SumOf(NonNull(rows)))
    [] NonNull(rows) # <<>> /\ rop = "Min" ->
         Some(CHOOSE v \in Elems(NonNull(rows)) : \A w \in Elems(NonNull(rows)) : v <= w)
    [] NonNull(rows) # <<>> /\ rop = "Max" ->
         Some(CHOOSE v \in Elems(NonNull(rows)) : \A w \in Elems(NonNull(rows)) : v >= w)

\* C18: ExecutionEngine::reduce returns what processing::reduce returns for
\* the same table, column and op (None for a missing column, the row count
\* for Count, Null for Sum / Min / Max over no non-null value, else the sum,
\* the least or the greatest non-null value), and ReduceFinished carries the
\* returned value.
C18_ReduceMatchesSequential ==
  (op = "reduce" /\ pc = "done") =>
    /\ result = reduce(dataset, closure.column, closure.op)
    /\ closure.column = "missing" => result = None
    /\ closure.column = "id" => result = Expected(dataset.rows, closure.op)
    /\ observer => events[3] = ReduceFinished(result)

\* A Min over a table with a Null cell and two different values has
\* returned.
C18_Witness ==
  /\ pc = "done"
  /\ op = "reduce"
  /\ observer
  /\ closure = [column |-> "id", op |-> "Min"]
  /\ dataset.rows = <<<<1>>, <<Null>>, <<0>>>>

\* end_run has been called for the run of this run_id.
EndRunCalledFor(r) ==
  /\ r >= 1
  /\ \/ r < metrics.run_id
     \/ r = metrics.run_id /\ pc \in {"emit_run_finished", "done"}

\* C15: a snapshot polled through the metrics handle at any moment reports
\* elapsed as present only if end_run has been called for the run of the
\* snapshot's run_id.
C15_ElapsedOnlyAfterEndRun ==
  (Polled /\ snapshot(poll).elapsed # None) => EndRunCalledFor(snapshot(poll).run_id)

\* C16: a snapshot taken while the chunk tasks update the counters is a copy
\* of the metrics at one instant; in particular it never reports more chunks
\* finished than started.
C16_SnapshotIsPointInTime ==
  Polled => snapshot(poll).chunks_finished <= snapshot(poll).chunks_started

RECURSIVE SumOver(_, _)
SumOver(f, S) ==
  IF S = {} THEN 0
  ELSE LET x == CHOOSE y \in S : TRUE IN f[x] + SumOver(f, S \ {x})

\* The acquire() and release() calls that have returned, over all clients.
Acquired == SumOver([c \in Clients |-> task[c].acquired], Clients)

Released == SumOver([c \in Clients |-> task[c].released], Clients)

\* C19 as stated: whatever acquire() and release() calls the threads have
\* made, the permit count is at least 0 and at most the capacity n.
C19_PermitsWithinCapacity ==
  /\ permits >= 0
  /\ permits <= opts.max_in_flight_chunks

\* C19, amended: the permit count is never negative; it is the capacity less
\* the acquires plus the releases that have returned, hence at most the
\* capacity exactly as long as no more releases than acquires have returned.
C19_PermitsBalance ==
  /\ permits >= 0
  /\ permits = opts.max_in_flight_chunks - Acquired + Released
  /\ permits <= opts.max_in_flight_chunks <=> Released <= Acquired

\* Every permit is back after a client had to park for one.
C19_Witness ==
  /\ permits = opts.max_in_flight_chunks
  /\ Acquired = Released
  /\ \E c \in Clients : task[c].waited /\ task[c].acquired >= 1

\* The chunk tasks that hold a permit.
Holders == {c \in Chunks : HoldsPermit(c)}

\* The chunk tasks whose mapper or predicate is being run over their rows.
InClosure == {c \in Chunks : task[c].pc = "rows"}

\* C20: the throttle does not serialise more than asked. While the closure
\* does not fault, the permits left are the cap less the chunk tasks holding
\* one, so a chunk task in acquire is made to wait only when max_in_flight
\* chunks are in flight, and a pending chunk is started whenever a pool
\* thread is free; with two threads, a cap of two and two chunks, two
\* mapper invocations can therefore be active at once.
C20_ThrottleAdmitsConcurrency ==
  (pc = "par_iter" /\ Faultless) =>
    /\ permits + Cardinality(Holders) = opts.max_in_flight_chunks
    /\ \A c \in Chunks :
         /\ (task[c].pc = "acquire" /\ Cardinality(Holders) < opts.max_in_flight_chunks)
              => ~MustWait(permits)
         /\ (task[c].pc = "pending" /\ Cardinality(TasksOnThreads) < opts.num_threads)
              => ENABLED StartTask(c)

\* Two chunk tasks of a map_parallel run are inside the mapper at the same
\* time and the metrics count two active chunks.
C20_Witness ==
  /\ op = "map"
  /\ pc = "par_iter"
  /\ opts.num_threads >= 2
  /\ opts.max_in_flight_chunks >= 2
  /\ K >= 2
  /\ Cardinality(InClosure) >= 2
  /\ metrics.active_chunks >= 2

\* C21: on_throttle_wait saturates: after any calls of on_throttle_wait within
\* a run the total is the lesser of the sum of the durations added and
\* u64::MAX; it never wraps around to a smaller value.
C21_ThrottleWaitSaturates ==
  pc = "metrics" => metrics.throttle_wait_ns = Min(prev.added, U64Max)

\* ingest_from_path has returned and the options had an observer.
IngestObserved == op = "ingest" /\ pc = "returned" /\ observer

\* C22: when ingest_from_path returns an error and an observer is configured,
\* on_failure has been invoked exactly once, whatever the cause of the error,
\* a format that cannot be inferred included; when it returns Ok, on_success
\* has been invoked exactly once with the returned table's row count, and
\* neither on_failure nor on_alert.
C22_ObserverToldOutcome ==
  IngestObserved =>
    /\ ~result[1].ok => CountType(events, "on_failure") = 1
    /\ result[1].ok =>
         /\ CountType(events, "on_success") = 1
         /\ events[1].rows = row_count(result[1].dataset)
         /\ CountType(events, "on_failure") = 0
         /\ CountType(events, "on_alert") = 0

\* An ingestion whose format was resolved has failed under an observer.
ResolvedFailure == IngestObserved /\ task.fmt # "None" /\ ~result[1].ok

\* After a failure: on_failure came first; on_alert was invoked, once, after
\* it and with its severity, exactly when that severity is at or above the
\* threshold of the options.
AlertFollowsSeverity ==
  /\ events # <<>>
  /\ events[1].type = "on_failure"
  /\ events[1].error = result[1].error
  /\ CountType(events, "on_alert") =
       (IF Rank(events[1].severity) >= Rank(opts.alert_at_or_above) THEN 1 ELSE 0)
  /\ \A i \in 1..Len(events) :
       events[i].type = "on_alert" =>
         /\ i = 2
         /\ events[i].severity = events[1].severity
         /\ events[i].error = events[1].error

\* With the default threshold a schema mismatch is reported as a failure and
\* raises no alert.
NoAlertOnSchemaMismatch ==
  (opts.alert_at_or_above = "Critical" /\ result[1].error.variant = "SchemaMismatch") =>
    /\ CountType(events, "on_failure") >= 1
    /\ CountType(events, "on_alert") = 0

StructuredIo(e) == e.variant = "Io" \/ (e.variant \in {"Csv", "Parquet"} /\ e.io)

Stage ==
  [pending |-> 0, acquire |-> 1, cv_wait |-> 1, throttle_metric |-> 2,
   throttle_emit |-> 2, cs_started |-> 3, cs_active |-> 3, cs_load |-> 3,
   cs_cas |-> 3, emit_started |-> 4, rows |-> 5, emit_finished |-> 6,
   ce_finished |-> 7, ce_active |-> 7, release |-> 8, done |-> 9,
   panicked |-> 10, skipped |-> 10]

\* From one step to the next a chunk task stays in its stage or enters the
\* following one; it may pass over stage 2 (no wait), fault in the rows, or
\* be dropped before it was started.
StageFollows(a, b) ==
  \/ Stage[b] \in {Stage[a], Stage[a] + 1}
  \/ a = "acquire" /\ b = "cs_started"
  \/ a = "rows" /\ b = "panicked"
  \/ a = "pending" /\ b = "skipped"

\* C25: each chunk task takes its steps in the order acquire, on_chunk_start,
\* ChunkStarted, rows, ChunkFinished, on_chunk_end, release; so no row of a
\* chunk is processed before the chunk holds a permit, a permit is given back
\* only by a chunk whose ChunkFinished has been delivered, and when
\* ChunkStarted is delivered chunks_started already counts the chunk.
C25_ChunkTaskOrder ==
  /\ [][pc = "par_iter" =>
          \A c \in Chunks : StageFollows(task[c].pc, task'[c].pc)]_vars
  /\ [][(pc = "par_iter" /\ metrics'.rows_processed # metrics.rows_processed) =>
          \E c \in Chunks :
            /\ task[c].pc = "rows"
            /\ HoldsPermit(c)
            /\ permits + Cardinality(Holders) <= opts.max_in_flight_chunks
            /\ observer => At("ChunkStarted", c) # {}]_vars
  /\ [][(pc = "par_iter" /\ permits' > permits) =>
          \E c \in Chunks :
            /\ task[c].pc = "release"
            /\ task'[c].pc = "done"
            /\ observer => At("ChunkFinished", c) # {}
            /\ Len(task[c].out) <= RowCount(c)]_vars
  /\ [][\A c \in Chunks :
          (At("ChunkStarted", c) = {} /\ At("ChunkStarted", c)' # {}) =>
            /\ metrics.chunks_started >= CountType(events', "ChunkStarted")
            /\ metrics.active_chunks >= 1
            /\ HoldsPermit(c)]_vars

\* A chunk task that had to wait for its permit has gone through every step
\* while another chunk task is in its rows.
C25_Witness ==
  /\ pc = "par_iter"
  /\ observer
  /\ \E c \in Chunks : task[c].pc = "done" /\ task[c].waited /\ task[c].dur > 0
  /\ \E c \in Chunks : task[c].pc = "rows"

\* The chunk tasks that faulted between acquire and release.
Faulted == {c \in Chunks : task[c].pc = "panicked"}

InAcquire(c) == task[c].pc \in {"acquire", "cv_wait"}

\* C26: a chunk task that faults after acquire and before release never
\* gives its permit back: the permits left plus those held by chunk tasks
\* that are alive are max_in_flight_chunks less one for each such fault; a
\* fault is never undone and the run never returns a table; and once
\* max_in_flight_chunks chunk tasks have faulted no chunk task ever leaves
\* acquire again.
C26_FaultLeaksPermit ==
  /\ [](pc \in {"par_iter", "panicked"} =>
          permits + Cardinality(Holders) = opts.max_in_flight_chunks - Cardinality(Faulted))
  /\ [](Faulted # {} => pc \in {"par_iter", "panicked"})
  /\ [][pc = "par_iter" => Faulted \subseteq Faulted']_vars
  /\ [](Cardinality(Faulted) = opts.max_in_flight_chunks =>
          /\ permits = 0
          /\ Holders = {}
          /\ \A c \in Chunks : task[c].pc = "acquire" => MustWait(permits))
  /\ [][(pc = "par_iter" /\ Cardinality(Faulted) = opts.max_in_flight_chunks) =>
          \A c \in Chunks : InAcquire(c) => InAcquire(c)']_vars

\* With two permits, two chunk tasks have faulted and a third is parked in
\* acquire.
C26_Witness ==
  /\ pc = "par_iter"
  /\ opts.max_in_flight_chunks = 2
  /\ Cardinality(Faulted) = 2
  /\ \E c \in Chunks : task[c].pc = "cv_wait"

\* No thread is between the increment of active_chunks and the end of its
\* update_max_usize.
MaxSettled == \A c \in Clients : task[c].pc \notin {"cs_load", "cs_cas"}

\* C27: whatever the interleaving of the on_chunk_start and on_chunk_end calls
\* of a run, max_active_chunks never decreases, never exceeds the largest
\* value that an increment gave the active-chunk counter, and equals it as
\* soon as no call is still inside its compare-and-retry loop.
C27_MaxActiveIsPeak ==
  /\ [](pc = "metrics" => metrics.max_active_chunks <= prev.peak)
  /\ [][pc = "metrics" => metrics'.max_active_chunks >= metrics.max_active_chunks]_vars
  /\ []((pc = "metrics" /\ MaxSettled) => metrics.max_active_chunks = prev.peak)

\* Every call has returned; calls of all threads had overlapped, and more
\* chunks were started than there are threads.
C27_Witness ==
  /\ pc = "metrics"
  /\ \A c \in Clients : task[c].pc = "idle"
  /\ prev.peak = MaxClients
  /\ metrics.max_active_chunks = MaxClients
  /\ metrics.active_chunks = 0
  /\ metrics.chunks_finished > MaxClients

\* The threads parked on the condition variable, and the threads inside
\* acquire that are awake: arriving, notified or spuriously woken.
Parked == {c \in Clients : task[c].pc = "cv_wait"}

AtMutex == {c \in Clients : task[c].pc = "acquire"}

\* C28: no wake-up is lost. While a thread is parked, every permit that is
\* available has a thread inside acquire that is awake and due to make its
\* pass of the loop; under fair scheduling, whenever a permit is available and
\* a thread is inside acquire, some acquire call returns with a permit; and
\* no thread stays inside acquire for ever while a permit stays available.
C28_NoLostWakeup ==
  /\ [](pc = "semaphore" => (Parked # {} => permits <= Cardinality(AtMutex)))
  /\ \A k \in 0..(MaxClients * MaxCalls) :
       (pc = "semaphore" /\ permits > 0 /\ Parked \cup AtMutex # {} /\ Acquired = k)
         ~> (Acquired > k)
  /\ \A c \in Clients : []<>(~InAcquire(c) \/ permits = 0)

\* A thread that had parked has got its permit while another thread is
\* still parked.
C28_Witness ==
  /\ pc = "semaphore"
  /\ \E c \in Clients : task[c].waited /\ task[c].acquired >= 1
  /\ Parked # {}

\* The chunk tasks that are active: on_chunk_start has added them to
\* active_chunks, on_chunk_end has not yet taken them off, and they have not
\* faulted.
ActiveTasks ==
  {c \in Chunks : task[c].pc \in {"cs_load", "cs_cas", "emit_started", "rows",
                                   "emit_finished", "ce_finished", "ce_active"}}

\* min(pool size, max_in_flight_chunks)
ParallelismCap == Min(opts.num_threads, opts.max_in_flight_chunks)

\* C29: in every state of a filter_parallel / map_parallel run at most
\* min(pool size, max_in_flight_chunks) chunks are active at once: a chunk
\* task is on a pool thread from its start to its end, a pool thread runs
\* one chunk task at a time, and a task inside acquire is not counted as
\* active. In a run without a fault the metrics and the events count the same.
C29_ActiveWithinPoolAndCap ==
  pc = "par_iter" =>
    /\ Cardinality(ActiveTasks) <= ParallelismCap
    /\ Cardinality(TasksOnThreads) <= opts.num_threads
    /\ ActiveTasks \subseteq TasksOnThreads
    /\ \A c \in Chunks : InAcquire(c) => (c \notin ActiveTasks /\ ~HoldsPermit(c))
    /\ metrics.active_chunks = Cardinality(ActiveTasks) + Cardinality(Faulted)
    /\ Faultless =>
         /\ metrics.active_chunks <= ParallelismCap
         /\ metrics.max_active_chunks <= ParallelismCap
         /\ ActiveByEvents(events) <= ParallelismCap

\* One pool thread and two permits: one chunk is active, and no other chunk
\* task can be started, while a permit is left.
C29_Witness ==
  /\ pc = "par_iter"
  /\ opts.num_threads = 1
  /\ opts.max_in_flight_chunks = 2
  /\ K >= 2
  /\ Cardinality(ActiveTasks) = 1
  /\ permits = 1
  /\ \E c \in Chunks : task[c].pc = "pending"

\* The caller is past the gather.
PastGather == pc \in {"end_run", "emit_run_finished", "done"}

\* C30: the gather is a barrier. end_run, RunFinished and the return come
\* only after every chunk task has delivered ChunkFinished and released its
\* permit, and from then on no chunk task, permit or counter of the run
\* changes; so the snapshot in RunFinished is the final one, taken after
\* end_run has stored the elapsed time, with rows_processed = R and
\* chunks_started = chunks_finished = K, and RunFinished is the last event.
C30_GatherIsBarrier ==
  /\ [](PastGather =>
          /\ \A c \in Chunks : task[c].pc = "done"
          /\ permits = opts.max_in_flight_chunks
          /\ metrics.active_chunks = 0
          /\ observer => \A c \in Chunks : At("ChunkFinished", c) # {})
  /\ [][PastGather => (task' = task /\ permits' = permits)]_vars
  /\ [][(pc = "emit_run_finished" \/ pc = "done") => (metrics' = metrics)]_vars
  /\ [][pc = "end_run" =>
          /\ pc' = "emit_run_finished"
          /\ metrics' = end_run(metrics, metrics'.elapsed_ns)]_vars
  /\ []((pc = "done" /\ observer) =>
          /\ events[Len(events)].type = "RunFinished"
          /\ events[Len(events)].metrics = snapshot(metrics)
          /\ events[Len(events)].metrics.rows_processed = row_count(dataset)
          /\ events[Len(events)].metrics.chunks_started = K
          /\ events[Len(events)].metrics.chunks_finished = K
          /\ events[Len(events)].elapsed >= metrics.elapsed_ns
          /\ \A i \in 1..(Len(events) - 1) : events[i].type # "RunFinished")

\* A run over three chunks, of which two were active at once, has delivered
\* its RunFinished, with the elapsed time in the snapshot.
C30_Witness ==
  /\ pc = "done"
  /\ observer
  /\ K = 3
  /\ events[Len(events)].type = "RunFinished"
  /\ events[Len(events)].metrics.max_active_chunks = 2
  /\ events[Len(events)].metrics.elapsed # None

\* ------------------------------------------------------------------ C31
\* The durations of the ThrottleWaited events among evs, added up.
RECURSIVE WaitedSum(_)
WaitedSum(evs) ==
  IF evs = <<>> THEN 0
  ELSE (IF Head(evs).type = "ThrottleWaited" THEN Head(evs).duration ELSE 0)
       + WaitedSum(Tail(evs))

\* The ThrottleWaited events the observer received for chunk c.
WaitedEvents(c) ==
  {i \in 1..Len(events) : events[i].type = "ThrottleWaited" /\ events[i].chunk = c}

\* The chunk task has left the throttle bookkeeping behind (it is at
\* on_chunk_start or later, or it has ended).
PastThrottle(c) ==
  task[c].pc \notin {"pending", "skipped", "acquire", "cv_wait", "throttle_metric",
                     "throttle_emit"}

\* The waits that on_throttle_wait has added and whose ThrottleWaited is
\* still to be emitted.
WaitsInFlight ==
  SumOver([c \in Chunks |-> IF task[c].pc = "throttle_emit" THEN task[c].dur ELSE 0],
          Chunks)

\* C31: with an observer attached, in every state of a filter_parallel /
\* map_parallel run: a chunk whose acquire() never parked has a zero wait; a
\* chunk past the throttle bookkeeping with a zero wait has no ThrottleWaited
\* event, and one with a wait d > 0 has exactly one, of duration d; the
\* metrics' throttle_wait_ns is the sum of the durations of the events
\* emitted so far plus the waits already added whose event is about to be
\* emitted; hence once the chunk tasks are through (the run returns) the
\* metrics' throttle_wait, and the one in RunFinished, is the sum of the
\* durations of the ThrottleWaited events of the run.
C31_ThrottleWaitAttributed ==
  (observer /\ pc \in {"par_iter", "end_run", "emit_run_finished", "done", "panicked"}) =>
    /\ \A c \in Chunks :
         /\ ~task[c].waited => task[c].dur = 0
         /\ Cardinality(WaitedEvents(c)) <= 1
         /\ PastThrottle(c) =>
              /\ task[c].dur = 0 => WaitedEvents(c) = {}
              /\ task[c].dur > 0 =>
                   \E i \in WaitedEvents(c) : events[i].duration = task[c].dur
    /\ metrics.throttle_wait_ns = WaitedSum(events) + WaitsInFlight
    /\ pc \in {"end_run", "emit_run_finished", "done"} =>
         snapshot(metrics).throttle_wait = WaitedSum(events)
    /\ pc = "done" =>
         events[Len(events)].metrics.throttle_wait = WaitedSum(events)

\* A run has returned in which one chunk waited for its permit and another
\* found one at once.
C31_Witness ==
  /\ pc = "done"
  /\ observer
  /\ WaitedSum(events) > 0
  /\ metrics.throttle_wait_ns = WaitedSum(events)
  /\ \E c \in Chunks : ~task[c].waited /\ WaitedEvents(c) = {}
  /\ \E c \in Chunks : task[c].waited /\ task[c].dur > 0 /\ WaitedEvents(c) # {}

\* ------------------------------------------------------------------ C32
\* The position of the caller is after the chunk ranges were computed.
PastSetup == pc \in {"par_iter", "end_run", "emit_run_finished", "done", "panicked"}

\* C32: in a filter_parallel / map_parallel run over a table without rows,
\* once the ranges are computed there is no chunk task and every permit of
\* the semaphore stays available; the run does not fault; begin_run has
\* incremented run_id; rows_processed, chunks_started, chunks_finished,
\* max_active_chunks (and active_chunks, throttle_wait_ns) stay zero; the
\* observer receives RunStarted and then RunFinished and nothing else; the
\* result is the table without rows on the input's schema.
C32_ZeroRowRun ==
  row_count(dataset) = 0 =>
    /\ PastSetup =>
         /\ ranges = <<>>
         /\ task = <<>>
         /\ permits = opts.max_in_flight_chunks
    /\ pc # "panicked"
    /\ pc # "begin_run" =>
         /\ metrics.run_id = 1
         /\ metrics.rows_processed = 0
         /\ metrics.chunks_started = 0
         /\ metrics.chunks_finished = 0
         /\ metrics.max_active_chunks = 0
         /\ metrics.active_chunks = 0
         /\ metrics.throttle_wait_ns = 0
    /\ observer =>
         /\ \A i \in 1..Len(events) : events[i].type \in {"RunStarted", "RunFinished"}
         /\ pc = "done" =>
              /\ Len(events) = 2
              /\ events[1] = RunStarted
              /\ events[2].type = "RunFinished"
              /\ events[2].metrics.rows_processed = 0
              /\ events[2].metrics.chunks_started = 0
              /\ events[2].metrics.chunks_finished = 0
              /\ events[2].metrics.max_active_chunks = 0
    /\ pc = "done" => result = Some(DataSet_new(dataset.schema, <<>>))

\* A run over a table without rows has returned, with an observer attached.
C32_Witness ==
  /\ pc = "done"
  /\ row_count(dataset) = 0
  /\ observer
  /\ Len(events) = 2
  /\ result = Some(DataSet_new(dataset.schema, <<>>))

\* ------------------------------------------------------------------ C33
\* The threads that are inside the observer's on_event.
InOnEvent == {t \in LockThreads : task[t].pc = "on_event"}

\* The threads that wait for the mutex m to be unlocked.
WaitsFor(m) ==
  {t \in LockThreads :
     \/ m = "permits" /\ task[t].pc \in {"acquire_lock", "cv_relock", "release_lock"}
     \/ m = "started_at" /\ task[t].pc = "begin_run"}

\* C33: a thread that is inside on_event holds neither the semaphore's
\* mutex nor the started_at mutex of the metrics; so a mutex that a thread
\* waits for is never held by a thread inside on_event, and snapshot()
\* called from inside on_event finds every mutex it needs unlocked. Each
\* mutex has one holder at most.
C33_NoLockAcrossOnEvent ==
  /\ \A t \in InOnEvent : task[t].locks = {}
  /\ \A m \in Mutexes :
       /\ Cardinality({t \in LockThreads : m \in task[t].locks}) <= 1
       /\ (WaitsFor(m) # {} /\ ~Unlocked(m)) =>
            \A t \in InOnEvent : m \notin task[t].locks
  /\ InOnEvent # {} => \A m \in SnapshotLocks : Unlocked(m)

\* Two pool threads are inside on_event at the same time, one of them has
\* called snapshot() there, and both have been through acquire.
C33_Witness ==
  /\ \E t, u \in InOnEvent :
       /\ t # u
       /\ t # 0 /\ u # 0
       /\ task[t].polled
       /\ task[t].ev = "ChunkStarted"
  /\ permits = 0

\* ------------------------------------------------------------------ C34
\* The events of one type among those the observer received.
EventsOf(t) == {i \in 1..Len(events) : events[i].type = t}

\* C34: with an observer attached, in a filter_parallel / map_parallel run:
\* every ChunkStarted carries the start and the length of the range of its
\* chunk, and no chunk has two; every ChunkFinished carries the length of
\* its chunk's output, which for map_parallel is the chunk's row count; and
\* when the run has returned, the (start_row, row_count) pairs of the
\* ChunkStarted events are the ranges of chunk_ranges, each once, their
\* row_counts add up to R, and the output_rows of the ChunkFinished events
\* add up to the row count of the returned table.
C34_EventPayloads ==
  (observer /\ PastSetup) =>
    /\ \A i \in EventsOf("ChunkStarted") :
         /\ events[i].chunk \in Chunks
         /\ events[i].start_row = ranges[events[i].chunk].start
         /\ events[i].row_count = RowCount(events[i].chunk)
         /\ \A j \in EventsOf("ChunkStarted") :
              events[j].start_row = events[i].start_row => j = i
    /\ \A i \in EventsOf("ChunkFinished") :
         /\ events[i].output_rows = Len(task[events[i].chunk].out)
         /\ op = "map" => events[i].output_rows = RowCount(events[i].chunk)
         /\ \A j \in EventsOf("ChunkFinished") :
              events[j].chunk = events[i].chunk => j = i
    /\ pc = "done" =>
         /\ {<<events[i].start_row, events[i].row_count>> : i \in EventsOf("ChunkStarted")}
              = {<<ranges[c].start, ranges[c].end - ranges[c].start>> : c \in Chunks}
         /\ Cardinality(EventsOf("ChunkStarted")) = K
         /\ SumOver([i \in EventsOf("ChunkStarted") |-> events[i].row_count],
                    EventsOf("ChunkStarted")) = row_count(dataset)
         /\ Cardinality(EventsOf("ChunkFinished")) = K
         /\ SumOver([i \in EventsOf("ChunkFinished") |-> events[i].output_rows],
                    EventsOf("ChunkFinished")) = row_count(result[1])

\* A filter_parallel run of several chunks has returned fewer rows than it
\* was given, and its events were received.
C34_Witness ==
  /\ pc = "done"
  /\ observer
  /\ op = "filter"
  /\ K >= 2
  /\ Cardinality(EventsOf("ChunkFinished")) = K
  /\ 0 < row_count(result[1])
  /\ row_count(result[1]) < row_count(dataset)

\* ------------------------------------------------------------------ C35
\* C35: over the runs made one after another: each run makes its own
\* semaphore with max_in_flight_chunks permits, whatever the run before
\* left; as long as no chunk task of the run has faulted, the permits left
\* plus the chunk tasks that have taken a permit in acquire and not yet given
\* it back in release are max_in_flight_chunks, and the count is never
\* negative; once the gather is through, and when the run returns, every
\* permit is available and no chunk task holds one.
C35_PermitConservation ==
  /\ [][pc = "setup" => permits' = opts.max_in_flight_chunks]_vars
  /\ []((PastSetup /\ Faulted = {}) =>
          /\ permits >= 0
          /\ permits + Cardinality(Holders) = opts.max_in_flight_chunks)
  /\ [](pc \in {"end_run", "emit_run_finished", "done"} =>
          /\ permits = opts.max_in_flight_chunks
          /\ Holders = {})

\* In the second run on the table every permit is taken, by two chunk tasks.
C35_Witness ==
  /\ runNo = 2
  /\ pc = "par_iter"
  /\ Faulted = {}
  /\ permits = 0
  /\ Cardinality(Holders) = 2

\* ------------------------------------------------------------------ C36
\* The counters of m that a run only ever counts up.
NotBelow(m, n) ==
  /\ m.rows_processed >= n.rows_processed
  /\ m.chunks_started >= n.chunks_started
  /\ m.chunks_finished >= n.chunks_finished
  /\ m.max_active_chunks >= n.max_active_chunks

\* The chunks and the rows of the run that is in progress (a reduce has no
\* chunk task and counts no row).
RunChunks ==
  IF op = "reduce" THEN 0 ELSE Len(chunk_ranges(row_count(dataset), opts.chunk_size))

RunRows == IF op = "reduce" THEN 0 ELSE row_count(dataset)

CountersBounded ==
  /\ metrics.chunks_finished <= metrics.chunks_started
  /\ metrics.chunks_started <= RunChunks
  /\ metrics.rows_processed <= RunRows

\* The caller is inside begin_run, between its run_id.fetch_add and its
\* last store.
InBeginRunStores == \E i \in 1..Len(StorePc) : pc = StorePc[i]

ChunkInProgress == {c \in Clients : task[c].pc \in {"rows", "chunk_end"}}

\* C37: with runs called concurrently on one engine by several threads,
\* the active-chunk counter is never more than the chunks that can be active
\* (it has not wrapped around below zero), the metrics never show more
\* chunks finished than started, and the chunks in progress are all counted
\* in chunks_started and active_chunks (no begin_run has erased them).
C37_ConcurrentRunsWellFormed ==
  /\ metrics.active_chunks <= MaxClients
  /\ snapshot(metrics).chunks_finished <= snapshot(metrics).chunks_started
  /\ metrics.chunks_started >= Cardinality(ChunkInProgress)
  /\ metrics.active_chunks >= Cardinality(ChunkInProgress)

\* ------------------------------------------------------------------ C38
\* C38: for every row_count and every chunk_size > 0 of a machine word, in
\* either build, chunk_ranges does not fault, none of its sums and
\* differences leaves the range of the word, and what it returns are the
\* ranges that the same computation gives on unbounded integers.
C38_ChunkRangesNoOverflow ==
  /\ pc # "panicked"
  /\ ~task.wrapped
  /\ pc = "returned" => result[1] = chunk_ranges(task.row_count, opts.chunk_size)

\* ------------------------------------------------------------------ C39
\* The methods of the observer o that have run, in order.
RECURSIVE HandledBy(_, _)
HandledBy(o, handled) ==
  IF handled = <<>> THEN <<>>
  ELSE (IF Head(handled).observer = o THEN <<Head(handled).call>> ELSE <<>>)
       \o HandledBy(o, Tail(handled))

\* The on_failure call that ingest_from_path makes for the error it returns.
FailureCall ==
  OnFailure(task.fmt, severity_for_error(result[1].error), result[1].error)

AlertCall ==
  OnAlert(task.fmt, severity_for_error(result[1].error), result[1].error)

Alerted == AlertDue(severity_for_error(result[1].error), opts.alert_at_or_above)

\* C39: after a failed ingestion whose format was resolved (so that the
\* observer is reached at all), an
\* observer that implements on_failure and leaves on_alert to the default has
\* run on_failure twice, with the same context, severity and error, when the
\* severity reaches the threshold, and once when it does not, and nothing
\* else. A CompositeObserver has passed on every call it received to each
\* observer of its list, once, the first of the list before the second:
\* on_success after a success; on_failure, and then on_alert when the
\* threshold is reached, after a failure (the second of the list, which has
\* the default on_alert, runs on_failure in its place).
C39_DefaultAlertAndComposite ==
  (IngestObserved /\ task.fmt # "None") =>
    /\ (opts.observer = "default_alert" /\ ~result[1].ok) =>
         /\ prev = Handled("default_alert", FailureCall)
                    \o (IF Alerted THEN Handled("default_alert", FailureCall) ELSE <<>>)
         /\ Len(prev) = (IF Alerted THEN 2 ELSE 1)
    /\ opts.observer = "composite" =>
         /\ HandledBy("recording", prev) = events
         /\ Len(HandledBy("default_alert", prev)) = Len(events)
         /\ result[1].ok =>
              prev = Handled("recording", events[1]) \o Handled("default_alert", events[1])
         /\ (~result[1].ok /\ ~Alerted) =>
              prev = Handled("recording", FailureCall)
                     \o Handled("default_alert", FailureCall)
         /\ (~result[1].ok /\ Alerted) =>
              prev = Handled("recording", FailureCall)
                     \o Handled("default_alert", FailureCall)
                     \o Handled("recording", AlertCall)
                     \o Handled("default_alert", FailureCall)

\* A failed ingestion has alerted an observer with the default on_alert,
\* which has run on_failure twice.
C39_Witness ==
  /\ IngestObserved
  /\ opts.observer = "default_alert"
  /\ ~result[1].ok
  /\ Alerted
  /\ Len(prev) = 2
  /\ prev[1] = prev[2]
  /\ prev[1].call.type = "on_failure"

\* ------------------------------------------------------------------ C40
\* The format that the claim gives for the extension of the path, whatever
\* the case of its letters; "None" where it gives none.
FormatByExtension ==
  CASE closure \in {"csv", "CSV", "Csv"} -> "Csv"
    [] closure \in {"json", "JSON", "ndjson"} -> "Json"
    [] closure \in {"parquet", "pq", "PQ"} -> "Parquet"
    [] closure \in {"xlsx", "xls", "XLS", "xlsm", "xlsb", "ods", "Ods"} -> "Excel"
    [] OTHER -> "None"

\* C40: once ingest_from_path has resolved the format: a format given in
\* the options is the one used, whatever the extension; without one the
\* format is that of the extension, letters compared without regard to
\* case; and with no extension or one that is not listed the call has
\* returned IngestionError::SchemaMismatch, no adapter was run and no
\* observer called. An adapter is only ever run with a resolved format.
C40_FormatResolution ==
  /\ [](pc # "ingest" =>
          /\ opts.format # "None" => task.fmt = opts.format
          /\ (opts.format = "None" /\ FormatByExtension # "None") =>
               task.fmt = FormatByExtension
          /\ (opts.format = "None" /\ FormatByExtension = "None") =>
               /\ pc = "returned"
               /\ task.fmt = "None"
               /\ result = Some(Err(IngestionError("SchemaMismatch", FALSE, "format")))
               /\ events = <<>>)
  /\ [](pc = "adapter" => task.fmt \in Formats)
  /\ [][result' # result =>
          \/ pc = "adapter" /\ result' \in {Some(r) : r \in AdapterResults(task.fmt)}
          \/ pc = "ingest" /\ pc' = "returned" /\ task.fmt = "None"]_vars

\* A path with the extension Ods and no format in the options was read as
\* Excel; and the call has returned a table.
C40_Witness ==
  /\ pc = "returned"
  /\ opts.format = "None"
  /\ closure = "Ods"
  /\ task.fmt = "Excel"
  /\ result[1].ok
====
